---- MODULE Spec2Model ----
(***************************************************************************)
(* OpenGem request-fulfilment engine: the concurrency gate, the            *)
(* single-flight token refresh and the identity rotation loop (unary and   *)
(* streaming), modelled from src/src/controllers/chat.ts and               *)
(* src/src/services/account-manager.ts.                                    *)
(*                                                                         *)
(* JavaScript runs each handler to its next await without interleaving,    *)
(* so one action is one synchronous stretch of code between two            *)
(* suspension points.                                                      *)
(***************************************************************************)
EXTENDS Integers, Sequences, FiniteSets, TLC

(***************************************************************************)
(* Model names of the fallback chain (services/gemini).                    *)
(***************************************************************************)
DEFAULT_MODEL == "flash"
FALLBACK_MODEL == "pro"
FALLBACK_MODEL_V2 == "pro-3.1"
NoModel == "null"
Models == {DEFAULT_MODEL, FALLBACK_MODEL, FALLBACK_MODEL_V2}

\* chat.ts getFallbackModel: flash -> pro -> pro-3.1 -> null
getFallbackModelSame(current) == current
getFallbackModel(current) ==
    IF current = FALLBACK_MODEL_V2 THEN NoModel
    ELSE IF current = FALLBACK_MODEL THEN FALLBACK_MODEL_V2
    ELSE FALLBACK_MODEL

VARIABLES
    \* Part 1: concurrency gate
    active,     \* RequestSemaphore.active
    queue,      \* RequestSemaphore.queue: the waiting callers, oldest first
    gpc,        \* where each caller of the gate stands
    gres,       \* outcome of the function a caller passed to run()
    \* Part 2: single-flight token refresh
    tokenRefreshInFlight, \* email -> id of the refresh promise in the map, 0 = no entry
    refresh,    \* refresh promise id -> [email, phase]
    nextPid,    \* next refresh promise id
    cachedTok,  \* email -> the cached account's [ver, fresh]
    tpc,        \* where each caller of ensureFreshToken stands
    tem,        \* the identity of a caller's current call
    twait,      \* the refresh promise a caller's current call awaited, 0 = none
    tret,       \* the access token a caller's call returned
    tover,      \* pairs of callers whose pending calls on one identity overlapped
    \* Part 3: rotation engine
    acctList,   \* cachedAccounts: the active identities, least recently used first
    cooldownState, \* email -> cooldown entry
    buckets,    \* accountRateLimiter: email -> the current window, "open" or "full"
    rq,         \* request -> the locals of its handler
    res,        \* request -> its downstream response object
    \* Part 4: the cooldown registry of one identity, on the clock
    now,        \* Date.now()
    cooldown,   \* cooldownState.get(email): the AccountCooldownState, or NoState
    inUse,      \* iterations holding the identity between cooldown check and outcome
    prevProbeAt, \* when the identity was last probed, Undefined = never
    probeGap,   \* the time between the last two probes, Undefined = fewer than two
    streak,     \* rate_limit marks in succession since the entry was created
    authMarked, \* the identity has been marked auth or billing
    forgot,     \* the failureCount the last success dropped, Undefined once marked again
    \* Part 5: one unary request on one identity that answers 429 every time
    s2,         \* the locals of tryGenerateContentWithAccounts, the stats, the reply
    \* Part 6: the account cache of account-manager.ts over the persisted accounts
    dbAccounts,     \* persistence: email -> [isActive, lastUsedAt]
    cachedAccounts, \* the cached list of Account objects
    cacheUpdatedAt, \* Date.now() of the last successful refresh, 0 = never
    cacheRefreshPromise, \* the refresh in flight, or NoPromise
    cacheLoadedAt,  \* when the cached list was read from persistence
    rd,             \* each caller of getReadyAccounts: where it stands, its list
    lastRet,        \* what the latest return of getReadyAccounts handed out
    \* Part 7: the fixed-window rate limiter, one key
    rlBucket,       \* buckets.get(key): [count, windowStartMs], or NoBucket
    lastConsume,    \* what the latest consume returned, the bucket it found, and when
    \* Part 8: pipeStream, one upstream stream onto one downstream response
    pstream,        \* the upstream stream: open, ended or errored
    pbuffer,        \* buffer: the text after the last line break
    pchunks,        \* chunks delivered so far
    pres,           \* the downstream response: what was written, writableEnded
    ppromise,       \* the promise pipeStream returned
    punwrap,        \* the unwrapEnvelope argument
    psawDone,       \* the upstream sent a complete [DONE] line
    \* Part 9: the backoff between the rounds of one request
    bk,             \* the attempt, the Retry-After header of the round's last response, the delay slept
    \* Part 10: classifyError on one text
    ctext,          \* the text: its phrases
    ccat,           \* the category classifyError returned, NoCategory before the call
    \* Part 11: one call of the /v1beta/models route
    call,           \* the call: its credentials, its action, the state it meets
    apc,            \* the middleware the call is at
    astatus,        \* the status it was answered with, 0 = not answered
    aengine,        \* handleGenerateContent was called for it
    \* Part 12: the persisted accounts under reactivateExhaustedAccounts
    backend,        \* the database backend: sqlite or local
    stored,         \* email -> the stored [isActive, exhaustedAt]
    lastReactivation,\* the latest reactivateExhaustedAccounts: its argument, the rows before and after, what it returned
    \* Part 13: the counters of one identity under incrementAccountStats
    sbackend,       \* the database backend: sqlite or local
    sinitial,       \* the counters before the calls
    scounters,      \* the stored counters
    scall,          \* each caller: where it stands, the stats it handed over
    \* Part 14: concurrent iterations on one identity, check to outcome
    hnow,           \* Date.now()
    hentry,         \* cooldownState.get(email): the AccountCooldownState, or NoState
    hold,           \* request -> where its iteration on the identity is, and whether it probes
    \* Part 15: one public streaming request and its rejecting awaits
    stm,            \* the request: position, round, index, length of the list, response
    \* Part 16: the account cache under getReadyAccounts, warm and invalidate
    icache,         \* cachedAccounts and cacheUpdatedAt
    ipromise,       \* cacheRefreshPromise: the load it points at, 0 = null
    iload,          \* event -> the refreshCache run started there, if any
    iseq,           \* the number of loads started and invalidations so far
    iinv,           \* the last invalidation, and whether getReadyAccounts was called since
    icall           \* caller -> its pending or settled call

gateVars == <<active, queue, gpc, gres>>
tokVars == <<tokenRefreshInFlight, refresh, nextPid, cachedTok, tpc, tem, twait, tret, tover>>
engVars == <<acctList, cooldownState, buckets, rq, res>>
regVars == <<now, cooldown, inUse, prevProbeAt, probeGap, streak, authMarked, forgot>>
scnVars == <<s2>>
cacheVars == <<dbAccounts, cachedAccounts, cacheUpdatedAt, cacheRefreshPromise,
               cacheLoadedAt, rd, lastRet>>
\* the parts after Part 5
limVars == <<rlBucket, lastConsume>>
pipeVars == <<pstream, pbuffer, pchunks, pres, ppromise, punwrap, psawDone>>
bkVars == <<bk>>
clsVars == <<ctext, ccat>>
authVars == <<call, apc, astatus, aengine>>
dbVars == <<backend, stored, lastReactivation>>
statsVars == <<sbackend, sinitial, scounters, scall>>
holdVars == <<hnow, hentry, hold>>
stmVars == <<stm>>
invVars == <<icache, ipromise, iload, iseq, iinv, icall>>
tailVars == <<cacheVars, limVars, pipeVars, bkVars, clsVars, authVars, dbVars, statsVars, holdVars, stmVars, invVars>>
\* the later parts but one
tailButCache == <<limVars, pipeVars, bkVars, clsVars, authVars, dbVars, statsVars, holdVars, stmVars, invVars>>
tailButLim == <<cacheVars, pipeVars, bkVars, clsVars, authVars, dbVars, statsVars, holdVars, stmVars, invVars>>
tailButPipe == <<cacheVars, limVars, bkVars, clsVars, authVars, dbVars, statsVars, holdVars, stmVars, invVars>>
tailButBk == <<cacheVars, limVars, pipeVars, clsVars, authVars, dbVars, statsVars, holdVars, stmVars, invVars>>
tailButCls == <<cacheVars, limVars, pipeVars, bkVars, authVars, dbVars, statsVars, holdVars, stmVars, invVars>>
tailButAuth == <<cacheVars, limVars, pipeVars, bkVars, clsVars, dbVars, statsVars, holdVars, stmVars, invVars>>
tailButDb == <<cacheVars, limVars, pipeVars, bkVars, clsVars, authVars, statsVars, holdVars, stmVars, invVars>>
tailButStats == <<cacheVars, limVars, pipeVars, bkVars, clsVars, authVars, dbVars, holdVars, stmVars, invVars>>
tailButHold == <<cacheVars, limVars, pipeVars, bkVars, clsVars, authVars, dbVars, statsVars, stmVars, invVars>>
tailButStm == <<cacheVars, limVars, pipeVars, bkVars, clsVars, authVars, dbVars, statsVars, holdVars, invVars>>
tailButInv == <<cacheVars, limVars, pipeVars, bkVars, clsVars, authVars, dbVars, statsVars, holdVars, stmVars>>
vars == <<gateVars, tokVars, engVars, regVars, scnVars, tailVars>>

(***************************************************************************)
(* Part 1.  RequestSemaphore and the upstream calls made around it.        *)
(***************************************************************************)
NumCallers == 5
Callers == 1..NumCallers
maxConcurrent == 3

FnOutcomes == {"s200", "s429", "s5xx", "throw"}

GateStart ==
    /\ active = 0
    /\ queue = <<>>
    /\ gpc = [c \in Callers |-> "idle"]
    /\ gres = [c \in Callers |-> "none"]

\* RequestSemaphore.acquire: the capacity test
HasFreeSlotNever(n) == FALSE
HasFreeSlotOffByOne(n) == n <= maxConcurrent
HasFreeSlot(n) == n < maxConcurrent

\* run(): await this.acquire()
GateAcquire(c) ==
    /\ UNCHANGED <<tokVars, engVars, regVars, scnVars, tailVars>>
    /\ gpc[c] = "idle"
    /\ IF HasFreeSlot(active)
       THEN /\ active' = active + 1
            /\ gpc' = [gpc EXCEPT ![c] = "acquired"]
            /\ queue' = queue
       ELSE /\ queue' = Append(queue, c)
            /\ gpc' = [gpc EXCEPT ![c] = "queued"]
            /\ active' = active
    /\ UNCHANGED gres

\* run(): the await returned, fn() is invoked: the primary nativeFetch is sent
GateStartFn(c) ==
    /\ UNCHANGED <<tokVars, engVars, regVars, scnVars, tailVars>>
    /\ gpc[c] \in {"acquired", "granted"}
    /\ gpc' = [gpc EXCEPT ![c] = "running"]
    /\ UNCHANGED <<active, queue, gres>>

\* fn() settles: a response of some status, or a rejection
GateFnSettle(c) ==
    /\ UNCHANGED <<tokVars, engVars, regVars, scnVars, tailVars>>
    /\ gpc[c] = "running"
    /\ \E out \in FnOutcomes :
          gres' = [gres EXCEPT ![c] = out]
    /\ gpc' = [gpc EXCEPT ![c] = "settled"]
    /\ UNCHANGED <<active, queue>>

\* release: this.queue.shift(), the waiter taken and the queue left
pop(q) == [next |-> q[Len(q)], rest |-> SubSeq(q, 1, Len(q) - 1)]
shift(q) == [next |-> Head(q), rest |-> Tail(q)]

\* run(): finally { this.release() }, then the caller goes on: after a 429 the
\* unary rotation sends the fallback call directly (chat.ts:208)
GateRelease(c) ==
    /\ UNCHANGED <<tokVars, engVars, regVars, scnVars, tailVars>>
    /\ gpc[c] = "settled"
    /\ \E m \in Models :
        LET fb == getFallbackModel(m)
            after == IF gres[c] = "s429" /\ fb # NoModel THEN "fallback" ELSE "idle"
        IN  IF queue = <<>>
            THEN /\ active' = active - 1
                 /\ queue' = queue
                 /\ gpc' = [gpc EXCEPT ![c] = after]
            ELSE /\ active' = (active - 1) + 1
                 /\ queue' = shift(queue).rest
                 /\ gpc' = [gpc EXCEPT ![c] = after, ![shift(queue).next] = "granted"]
    /\ gres' = [gres EXCEPT ![c] = "none"]

\* the fallback nativeFetch of the unary rotation settles
GateFallbackSettle(c) ==
    /\ UNCHANGED <<tokVars, engVars, regVars, scnVars, tailVars>>
    /\ gpc[c] = "fallback"
    /\ gpc' = [gpc EXCEPT ![c] = "idle"]
    /\ UNCHANGED <<active, queue, gres>>

\* streamWithAccounts: nativeFetchStream is called directly (chat.ts:363)
StreamCall(c) ==
    /\ UNCHANGED <<tokVars, engVars, regVars, scnVars, tailVars>>
    /\ gpc[c] = "idle"
    /\ gpc' = [gpc EXCEPT ![c] = "stream"]
    /\ UNCHANGED <<active, queue, gres>>

\* the streaming call answers; on 429 the fallback stream is opened (chat.ts:373)
StreamSettle(c) ==
    /\ UNCHANGED <<tokVars, engVars, regVars, scnVars, tailVars>>
    /\ gpc[c] = "stream"
    /\ \E out \in FnOutcomes, m \in Models :
          gpc' = [gpc EXCEPT ![c] =
                     IF out = "s429" /\ getFallbackModel(m) # NoModel
                     THEN "streamFb" ELSE "idle"]
    /\ UNCHANGED <<active, queue, gres>>

StreamFbSettle(c) ==
    /\ UNCHANGED <<tokVars, engVars, regVars, scnVars, tailVars>>
    /\ gpc[c] = "streamFb"
    /\ gpc' = [gpc EXCEPT ![c] = "idle"]
    /\ UNCHANGED <<active, queue, gres>>

GateStep ==
    \E c \in Callers :
        \/ GateAcquire(c)
        \/ GateStartFn(c)
        \/ GateFnSettle(c)
        \/ GateRelease(c)
        \/ GateFallbackSettle(c)
        \/ StreamCall(c)
        \/ StreamSettle(c)
        \/ StreamFbSettle(c)

(***************************************************************************)
(* Part 2.  ensureFreshToken: single-flight token refresh                  *)
(* (services/account-manager.ts).                                          *)
(***************************************************************************)
NumTokCallers == 3
TokCallers == 1..NumTokCallers
MaxRefresh == 2
Emails == {"a", "b"}
Pids == 1..MaxRefresh
NoRefresh == [email |-> "none", phase |-> "none"]
\* the access token a refresh returns: every refresh yields a new one
NewToken(p) == p

TokStart ==
    /\ tokenRefreshInFlight = [e \in Emails |-> 0]
    /\ refresh = [p \in Pids |-> NoRefresh]
    /\ nextPid = 1
    /\ cachedTok = [e \in Emails |-> [ver |-> 0, fresh |-> TRUE]]
    /\ tpc = [c \in TokCallers |-> "idle"]
    /\ tem = [c \in TokCallers |-> "none"]
    /\ twait = [c \in TokCallers |-> 0]
    /\ tret = [c \in TokCallers |-> 0]
    /\ tover = {}

\* tokenRefreshInFlight.get(account.email)
ExistingRefreshNone(e) == 0
ExistingRefresh(e) == tokenRefreshInFlight[e]

\* callers whose call on e is pending
Awaiting(e) == {c \in TokCallers : tpc[c] = "await" /\ tem[c] = e}

\* ensureFreshToken up to its first suspension.  stale: the account object is
\* one of an older cache generation, which a refresh of the cached entry did
\* not touch, so its token is the expired one.
TokCall(c, e, stale) ==
    /\ UNCHANGED <<gateVars, engVars, regVars, scnVars, tailVars>>
    /\ tpc[c] = "idle"
    /\ tem' = [tem EXCEPT ![c] = e]
    /\ LET tokenValid == ~stale /\ cachedTok[e].fresh
           existing == ExistingRefresh(e)
       IN  IF tokenValid
           THEN /\ tpc' = [tpc EXCEPT ![c] = "returned"]
                /\ tret' = [tret EXCEPT ![c] = cachedTok[e].ver]
                /\ UNCHANGED <<tokenRefreshInFlight, refresh, nextPid, twait, tover>>
           ELSE IF existing # 0
           THEN /\ tpc' = [tpc EXCEPT ![c] = "await"]
                /\ twait' = [twait EXCEPT ![c] = existing]
                /\ tover' = tover \cup {{c, d} : d \in Awaiting(e)}
                /\ UNCHANGED <<tokenRefreshInFlight, refresh, nextPid, tret>>
           ELSE /\ nextPid <= MaxRefresh
                /\ refresh' = [refresh EXCEPT ![nextPid] = [email |-> e, phase |-> "http"]]
                /\ tokenRefreshInFlight' = [tokenRefreshInFlight EXCEPT ![e] = nextPid]
                /\ nextPid' = nextPid + 1
                /\ tpc' = [tpc EXCEPT ![c] = "await"]
                /\ twait' = [twait EXCEPT ![c] = nextPid]
                /\ tover' = tover \cup {{c, d} : d \in Awaiting(e)}
                /\ UNCHANGED tret
    /\ UNCHANGED cachedTok

\* refreshAccessToken answered with new tokens; db.updateAccount is awaited next
RefreshHttpOk(p) ==
    /\ UNCHANGED <<gateVars, engVars, regVars, scnVars, tailVars>>
    /\ refresh[p].phase = "http"
    /\ refresh' = [refresh EXCEPT ![p].phase = "db"]
    /\ UNCHANGED <<tokenRefreshInFlight, nextPid, cachedTok, tpc, tem, twait, tret, tover>>

\* finally { tokenRefreshInFlight.delete(account.email) } when the try block threw
deleteOnSuccessOnly(map, e) == map
deleteInFinally(map, e) == [map EXCEPT ![e] = 0]

\* the refresh promise rejects (refreshAccessToken or db.updateAccount threw):
\* finally deletes the map entry of the email, every awaiting caller rejects
RefreshFail(p) ==
    /\ UNCHANGED <<gateVars, engVars, regVars, scnVars, tailVars>>
    /\ refresh[p].phase \in {"http", "db"}
    /\ refresh' = [refresh EXCEPT ![p].phase =
                      IF refresh[p].phase = "http" THEN "failed_oauth" ELSE "failed_db"]
    /\ tokenRefreshInFlight' = deleteInFinally(tokenRefreshInFlight, refresh[p].email)
    /\ tpc' = [c \in TokCallers |->
                  IF tpc[c] = "await" /\ twait[c] = p THEN "rejected" ELSE tpc[c]]
    /\ UNCHANGED <<nextPid, cachedTok, tem, twait, tret, tover>>

\* db.updateAccount done: the cached entry gets the new token, finally deletes
\* the map entry, every awaiting caller receives newTokens.accessToken
RefreshDone(p) ==
    /\ UNCHANGED <<gateVars, engVars, regVars, scnVars, tailVars>>
    /\ refresh[p].phase = "db"
    /\ refresh' = [refresh EXCEPT ![p].phase = "over"]
    /\ cachedTok' = [cachedTok EXCEPT ![refresh[p].email] = [ver |-> NewToken(p), fresh |-> TRUE]]
    /\ tokenRefreshInFlight' = [tokenRefreshInFlight EXCEPT ![refresh[p].email] = 0]
    /\ tpc' = [c \in TokCallers |->
                  IF tpc[c] = "await" /\ twait[c] = p THEN "returned" ELSE tpc[c]]
    /\ tret' = [c \in TokCallers |->
                  IF tpc[c] = "await" /\ twait[c] = p THEN NewToken(p) ELSE tret[c]]
    /\ UNCHANGED <<nextPid, tem, twait, tover>>

\* the caller has its result and may call again later
TokReturn(c) ==
    /\ UNCHANGED <<gateVars, engVars, regVars, scnVars, tailVars>>
    /\ tpc[c] \in {"returned", "rejected"}
    /\ tpc' = [tpc EXCEPT ![c] = "idle"]
    /\ tem' = [tem EXCEPT ![c] = "none"]
    /\ twait' = [twait EXCEPT ![c] = 0]
    /\ tret' = [tret EXCEPT ![c] = 0]
    /\ tover' = {pr \in tover : c \notin pr}
    /\ UNCHANGED <<tokenRefreshInFlight, refresh, nextPid, cachedTok>>

\* time passes: the cached token comes within 5 min of its expiry
TokenExpire(e) ==
    /\ UNCHANGED <<gateVars, engVars, regVars, scnVars, tailVars>>
    /\ cachedTok[e].fresh
    /\ cachedTok' = [cachedTok EXCEPT ![e].fresh = FALSE]
    /\ UNCHANGED <<tokenRefreshInFlight, refresh, nextPid, tpc, tem, twait, tret, tover>>

TokStep ==
    \/ \E c \in TokCallers, e \in Emails, stale \in BOOLEAN : TokCall(c, e, stale)
    \/ \E p \in Pids : RefreshHttpOk(p) \/ RefreshFail(p) \/ RefreshDone(p)
    \/ \E c \in TokCallers : TokReturn(c)
    \/ \E e \in Emails : TokenExpire(e)

(***************************************************************************)
(* Part 3.  The rotation engine: tryGenerateContentWithAccounts (unary)    *)
(* and streamWithAccounts (public streaming, admin chat), with the         *)
(* cooldown registry and the rate limiter they consult.                    *)
(*                                                                         *)
(* Time is abstract.  A cooldown entry carries, in place of cooldownUntil  *)
(* and lastProbeAt, where the clock stands relative to them: phase "far"   *)
(* (more than PROBE_MARGIN_MS before cooldownUntil), "near" (within it) or *)
(* "expired" (at or past it), and probeDue (at least MIN_PROBE_INTERVAL_MS *)
(* since lastProbeAt, or no probe yet); failureCount, which only sets the  *)
(* length of a cooldown, is left to the registry's own specification.  A   *)
(* rate-limit window is "open" (count < maxRequests) or "full".            *)
(* Persistence calls succeed; the counters they add to are kept as the     *)
(* last delta each request handed to incrementAccountStats.                *)
(***************************************************************************)
NumReq == 1
Reqs == 1..NumReq
MaxFrames == 1
MAX_ATTEMPTS == 5
RATE_LIMIT_COOLDOWN_MS == 15000
QUOTA_COOLDOWN_MS == 3600000
PROBE_MARGIN_MS == 120000
RATE_LIMIT_COOLDOWN_CAP_MS == 120000
TIMEOUT_COOLDOWN_MS == 5000
\* Number.MAX_SAFE_INTEGER, brought inside TLC's integers: a cooldown no clock reaches
NEVER_MS == 2000000000
MaxFailureCount == 12
FAILURE_COUNTS == 1..MaxFailureCount

ErrorCategory == {"rate_limit", "quota", "auth", "timeout", "overloaded", "billing",
                  "model_not_found", "format", "unknown"}
\* A text as classifyError sees it: the HTTP status it starts with (0: none)
\* and the pattern groups of ERROR_PATTERNS it matches.
PatternGroups == {"modelNotFound", "quota", "rateLimit", "overloaded", "auth",
                  "format", "billing", "timeout"}
Text(status, marks) == [status |-> status, marks |-> marks]

\* error-classifier.ts classifyError
classifyErrorQuotaFirst(text) ==
    IF text.status = 429
    THEN (IF "quota" \in text.marks THEN "quota" ELSE "rate_limit")
    ELSE IF text.status \in {401, 403} THEN "auth"
    ELSE IF text.status = 402 THEN "billing"
    ELSE IF text.status = 404 THEN "model_not_found"
    ELSE IF text.status \in {408, 500, 502, 503, 504, 521, 522, 523, 524, 529} THEN "timeout"
    ELSE IF "quota" \in text.marks THEN "quota"
    ELSE IF "modelNotFound" \in text.marks THEN "model_not_found"
    ELSE IF "rateLimit" \in text.marks THEN "rate_limit"
    ELSE IF "overloaded" \in text.marks THEN "overloaded"
    ELSE IF "auth" \in text.marks THEN "auth"
    ELSE IF "format" \in text.marks THEN "format"
    ELSE IF "billing" \in text.marks THEN "billing"
    ELSE IF "timeout" \in text.marks THEN "timeout"
    ELSE "unknown"
classifyError(text) ==
    IF text.status = 429
    THEN (IF "quota" \in text.marks THEN "quota" ELSE "rate_limit")
    ELSE IF text.status \in {401, 403} THEN "auth"
    ELSE IF text.status = 402 THEN "billing"
    ELSE IF text.status = 404 THEN "model_not_found"
    ELSE IF text.status \in {408, 500, 502, 503, 504, 521, 522, 523, 524, 529} THEN "timeout"
    ELSE IF "modelNotFound" \in text.marks THEN "model_not_found"
    ELSE IF "quota" \in text.marks THEN "quota"
    ELSE IF "rateLimit" \in text.marks THEN "rate_limit"
    ELSE IF "overloaded" \in text.marks THEN "overloaded"
    ELSE IF "auth" \in text.marks THEN "auth"
    ELSE IF "format" \in text.marks THEN "format"
    ELSE IF "billing" \in text.marks THEN "billing"
    ELSE IF "timeout" \in text.marks THEN "timeout"
    ELSE "unknown"

\* the messages nativeFetch / nativeFetchStream reject with: "Request timeout
\* after 30s" / "Stream request timeout after 120s", and a socket error
RejectMessages == {Text(0, {"timeout"}), Text(0, {})}
ThrowCats == {classifyError(m) : m \in RejectMessages}
\* the bodies a failed token endpoint answers with: an OAuth error such as
\* invalid_grant, or an error page such as "404 Not Found"
OAuthErrorBodies == {{"auth"}, {"modelNotFound"}}
\* gemini.ts refreshAccessToken: `Token refresh failed: ${body}`
RefreshFailedMessage(body) == Text(0, {"auth"} \cup body)
\* what classifyError makes of a rejected ensureFreshToken
RefreshFailCats == {classifyError(RefreshFailedMessage(b)) : b \in OAuthErrorBodies}

Min(a, b) == IF a <= b THEN a ELSE b
Max(a, b) == IF a >= b THEN a ELSE b
RECURSIVE Pow2(_)
Pow2(n) == IF n <= 0 THEN 1 ELSE 2 * Pow2(n - 1)

\* chat.ts classify429, on the category classifyError gives the 429 body
classify429Raw(cat) == cat
classify429(cat) == IF cat \in {"quota", "auth", "billing"} THEN "quota" ELSE "rate_limit"

\* chat.ts resolveModel
resolveModel(m) ==
    IF m = "gemini-3.1-pro-preview" THEN FALLBACK_MODEL
    ELSE IF m = "" THEN DEFAULT_MODEL ELSE m
RequestedModels == {"", FALLBACK_MODEL, "gemini-3.1-pro-preview", FALLBACK_MODEL_V2}

\* account-cooldown.ts calculateCooldownMs (the exponent is clamped where the
\* product is past the cap already, to stay inside TLC's integers)
calculateCooldownMsNoCap(category, failureCount) ==
    IF category \in {"rate_limit", "overloaded"}
    THEN RATE_LIMIT_COOLDOWN_MS * Pow2(Min(Max(0, failureCount - 1), 10))
    ELSE IF category = "quota" THEN QUOTA_COOLDOWN_MS
    ELSE IF category \in {"auth", "billing"} THEN NEVER_MS
    ELSE IF category = "timeout" THEN TIMEOUT_COOLDOWN_MS
    ELSE RATE_LIMIT_COOLDOWN_MS
calculateCooldownMs(category, failureCount) ==
    IF category \in {"rate_limit", "overloaded"}
    THEN Min(RATE_LIMIT_COOLDOWN_MS * Pow2(Min(Max(0, failureCount - 1), 10)),
             RATE_LIMIT_COOLDOWN_CAP_MS)
    ELSE IF category = "quota" THEN QUOTA_COOLDOWN_MS
    ELSE IF category \in {"auth", "billing"} THEN NEVER_MS
    ELSE IF category = "timeout" THEN TIMEOUT_COOLDOWN_MS
    ELSE RATE_LIMIT_COOLDOWN_MS

NoEntry == [reason |-> "none", phase |-> "none", probeDue |-> FALSE]

\* a cooldown of this category starts inside the probe margin, whatever the
\* failure count (now >= cooldownUntil - PROBE_MARGIN_MS right at the mark)
startsNearExpiry(category) ==
    \A failureCount \in FAILURE_COUNTS :
        calculateCooldownMs(category, failureCount) <= PROBE_MARGIN_MS

\* account-cooldown.ts markAccountCooldown: a new entry, lastProbeAt carried over
markAccountCooldown(cs, email, category) ==
    LET existing == cs[email]
    IN  [cs EXCEPT ![email] =
            [reason |-> category,
             phase |-> IF startsNearExpiry(category) THEN "near" ELSE "far",
             probeDue |-> IF existing = NoEntry THEN TRUE ELSE existing.probeDue]]

\* account-cooldown.ts isAccountInCooldown: its value, and the registry it leaves
isAccountInCooldown(cs, email) == cs[email] # NoEntry /\ cs[email].phase # "expired"
afterCooldownCheck(cs, email) ==
    IF cs[email] # NoEntry /\ cs[email].phase = "expired"
    THEN [cs EXCEPT ![email] = NoEntry] ELSE cs

\* account-cooldown.ts shouldProbeAccount
shouldProbeAccount(cs, email) ==
    /\ cs[email] # NoEntry
    /\ cs[email].reason \notin {"auth", "billing"}
    /\ cs[email].probeDue
    /\ \/ cs[email].phase \in {"near", "expired"}
       \/ cs[email].reason \in {"rate_limit", "overloaded"}

\* account-cooldown.ts recordProbe
recordProbe(cs, email) ==
    IF cs[email] # NoEntry THEN [cs EXCEPT ![email].probeDue = FALSE] ELSE cs

\* account-cooldown.ts markAccountSuccess / clearAccountCooldown
markAccountSuccessKeeps(cs, email) == cs
markAccountSuccess(cs, email) == [cs EXCEPT ![email] = NoEntry]

\* account-cooldown.ts clearExpiredCooldowns
clearExpiredCooldowns(cs) ==
    [e \in Emails |-> IF cs[e] # NoEntry /\ cs[e].phase = "expired" THEN NoEntry ELSE cs[e]]

\* the Express response object
NewRes == [headersSent |-> FALSE, writableEnded |-> FALSE, statusCode |-> 0,
           body |-> <<>>, ends |-> 0]
\* res.status(code).json(what) / res.json(what)
resJson(rs, code, what) ==
    [rs EXCEPT !.headersSent = TRUE, !.statusCode = code, !.body = Append(@, what),
               !.writableEnded = TRUE, !.ends = @ + 1]
\* res.writeHead(200, ...)
resWriteHead(rs) == [rs EXCEPT !.headersSent = TRUE, !.statusCode = 200]
\* res.write(frame): a write after end is dropped
resWrite(rs, frame) == IF rs.writableEnded THEN rs ELSE [rs EXCEPT !.body = Append(@, frame)]
\* res.end()
resEnd(rs) == [rs EXCEPT !.writableEnded = TRUE, !.ends = @ + 1]
\* if (!res.writableEnded) res.end()
EndAlways(rs) == resEnd(rs)
endIfOpen(rs) == IF ~rs.writableEnded THEN resEnd(rs) ELSE rs

NewReq == [pc |-> "idle", kind |-> "none", model |-> "none", attempt |-> 0, idx |-> 0,
           accounts |-> <<>>, usedModel |-> "none", first429 |-> "none", stat |-> "none",
           out |-> "none", consumed |-> FALSE,
           result |-> "none", via |-> "none", servedBy |-> "none", servedModel |-> "none",
           called |-> FALSE, failedAfterHeaders |-> FALSE]

EngStart ==
    /\ acctList \in {<<>>, <<"a">>, <<"a", "b">>}
    /\ cooldownState = [e \in Emails |-> NoEntry]
    /\ buckets = [e \in Emails |-> "open"]
    /\ rq = [r \in Reqs |-> NewReq]
    /\ res = [r \in Reqs |-> NewRes]

\* the other parts at rest
EngRest ==
    /\ acctList = <<>>
    /\ cooldownState = [e \in Emails |-> NoEntry]
    /\ buckets = [e \in Emails |-> "open"]
    /\ rq = [r \in Reqs |-> NewReq]
    /\ res = [r \in Reqs |-> NewRes]

\* the loop test of the rounds: attempt < MAX_ATTEMPTS
moreRoundsOneTooMany(attempt) == attempt <= MAX_ATTEMPTS
moreRounds(attempt) == attempt < MAX_ATTEMPTS

\* accounts.length === 0
noAccountsNever(accounts) == FALSE
noAccounts(accounts) == Len(accounts) = 0

\* if (res.headersSent): the response is committed
committedNever(rs) == FALSE
committed(rs) == rs.headersSent

\* continue: on to the next identity of the round; the iteration's own
\* consume result goes out of scope
continueSame(q) == [q EXCEPT !.pc = "iter", !.consumed = FALSE]
continue(q) == [q EXCEPT !.idx = @ + 1, !.pc = "iter", !.consumed = FALSE]

\* what the client gets when the rotation gives up: handleGenerateContent's 503
\* for a null result, or streamWithAccounts' own ending (chat.ts:337-338, 460-461)
giveUp(kind, rs) ==
    IF kind = "unary" THEN resJson(rs, 503, "exhausted503")
    ELSE IF ~rs.headersSent THEN resJson(rs, 503, "exhausted503")
    ELSE IF ~rs.writableEnded THEN resEnd(resWrite(rs, "errframe"))
    ELSE rs

\* handleGenerateContent / handleAdminChat up to the rotation
Start(r) ==
    /\ rq[r].pc = "idle"
    /\ \E k \in {"unary", "stream", "admin"}, m \in RequestedModels, valid \in BOOLEAN :
        IF ~valid
        THEN /\ rq' = [rq EXCEPT ![r] = [@ EXCEPT !.pc = "done", !.kind = k, !.result = "invalid"]]
             /\ res' = [res EXCEPT ![r] = resJson(@, 400, "invalid400")]
        ELSE /\ rq' = [rq EXCEPT ![r] = [@ EXCEPT !.pc = "select", !.kind = k,
                                                     !.model = resolveModel(m)]]
             /\ res' = [res EXCEPT ![r] = IF k = "admin" THEN resWriteHead(@) ELSE @]
    /\ UNCHANGED <<acctList, cooldownState, buckets>>
    /\ UNCHANGED <<gateVars, tokVars, regVars, scnVars, tailVars>>

\* top of a round: the loop test, then selectReadyAccounts and the empty-list exit
Select(r) ==
    /\ rq[r].pc = "select"
    /\ LET q == rq[r] IN
       IF ~moreRounds(q.attempt)
       THEN /\ rq' = [rq EXCEPT ![r] = [q EXCEPT !.pc = "done", !.result = "exhausted"]]
            /\ res' = [res EXCEPT ![r] = giveUp(q.kind, @)]
            /\ UNCHANGED cooldownState
       ELSE /\ cooldownState' = clearExpiredCooldowns(cooldownState)
            /\ IF noAccounts(acctList)
               THEN /\ rq' = [rq EXCEPT ![r] = [q EXCEPT !.pc = "done", !.accounts = acctList,
                                                            !.result = "noaccounts"]]
                    /\ res' = [res EXCEPT ![r] = giveUp(q.kind, @)]
               ELSE /\ rq' = [rq EXCEPT ![r] = [q EXCEPT !.pc = "iter", !.accounts = acctList,
                                                            !.idx = 1]]
                    /\ UNCHANGED res
    /\ UNCHANGED <<acctList, buckets>>
    /\ UNCHANGED <<gateVars, tokVars, regVars, scnVars, tailVars>>

\* one identity of the round up to its first suspension: cooldown check with
\* probe, rate budget (unary only), stagger; or the end of the round
Iterate(r) ==
    /\ rq[r].pc = "iter"
    /\ LET q == rq[r] IN
       IF q.idx > Len(q.accounts)
       THEN /\ rq' = [rq EXCEPT ![r] =
                        IF q.attempt < MAX_ATTEMPTS - 1
                        THEN [q EXCEPT !.pc = "backoff"]
                        ELSE [q EXCEPT !.pc = "select", !.attempt = @ + 1]]
            /\ UNCHANGED <<cooldownState, buckets>>
       ELSE LET email == q.accounts[q.idx]
                inCooldown == isAccountInCooldown(cooldownState, email)
                cs1 == afterCooldownCheck(cooldownState, email)
                probe == inCooldown /\ shouldProbeAccount(cs1, email)
                skipped == inCooldown /\ ~probe
                consumes == q.kind = "unary" /\ ~skipped
                allowed == buckets[email] = "open"
            IN  /\ cooldownState' = IF probe THEN recordProbe(cs1, email) ELSE cs1
                /\ IF consumes /\ allowed
                   THEN \E b \in {"open", "full"} : buckets' = [buckets EXCEPT ![email] = b]
                   ELSE UNCHANGED buckets
                /\ rq' = [rq EXCEPT ![r] =
                            IF skipped \/ (consumes /\ ~allowed) THEN continue(q)
                            ELSE [q EXCEPT !.pc = IF q.idx > 1 THEN "stagger" ELSE "token",
                                           !.consumed = consumes /\ allowed]]
    /\ UNCHANGED <<acctList, res>>
    /\ UNCHANGED <<gateVars, tokVars, regVars, scnVars, tailVars>>

\* the 150 ms stagger is over
Stagger(r) ==
    /\ rq[r].pc = "stagger"
    /\ rq' = [rq EXCEPT ![r].pc = "token"]
    /\ UNCHANGED <<acctList, cooldownState, buckets, res>>
    /\ UNCHANGED <<gateVars, tokVars, regVars, scnVars, tailVars>>

\* ensureFreshToken settled (Part 2): with a token the upstream call goes out,
\* the unary one through the gate; a rejection lands in the catch of the iteration
Token(r) ==
    /\ rq[r].pc = "token"
    /\ LET q == rq[r]
           email == q.accounts[q.idx]
       IN \E ok \in BOOLEAN, cat \in RefreshFailCats :
            IF ok
            THEN /\ cat = "auth"
                 /\ q.kind = "unary" => HasFreeSlot(active)
                 /\ active' = IF q.kind = "unary" THEN active + 1 ELSE active
                 /\ rq' = [rq EXCEPT ![r] =
                             [q EXCEPT !.pc = IF q.kind = "unary" THEN "call" ELSE "scall",
                                       !.usedModel = q.model, !.called = TRUE,
                                       !.stat = "none", !.out = "none"]]
                 /\ UNCHANGED cooldownState
            ELSE /\ cooldownState' = markAccountCooldown(cooldownState, email, cat)
                 /\ rq' = [rq EXCEPT ![r] = continue([q EXCEPT !.stat = "failed",
                                                               !.out = "token_throw"])]
                 /\ UNCHANGED active
    /\ UNCHANGED <<acctList, buckets, res>>
    /\ UNCHANGED <<queue, gpc, gres, tokVars, regVars, scnVars, tailVars>>

\* a 200 with text: markAccountSuccess, stats, and the response object returned
succeed(r, email, m, how) ==
    /\ cooldownState' = markAccountSuccess(cooldownState, email)
    /\ rq' = [rq EXCEPT ![r] = [@ EXCEPT !.pc = "done", !.result = "success", !.out = "ok",
                                         !.servedBy = email, !.servedModel = m,
                                         !.via = how, !.stat = "successful",
                                         !.first429 = "none"]]

\* classify + cooldown + failed counter + continue
failWith(r, email, cat, o) ==
    /\ cooldownState' = markAccountCooldown(cooldownState, email, cat)
    /\ rq' = [rq EXCEPT ![r] = continue([@ EXCEPT !.stat = "failed", !.first429 = "none",
                                                  !.out = o])]

\* the primary unary call settles and the gate is released
CallDone(r) ==
    /\ rq[r].pc = "call"
    /\ active' = active - 1
    /\ LET q == rq[r]
           email == q.accounts[q.idx]
           fallback == getFallbackModel(q.usedModel)
       IN \E o \in {"ok", "empty", "s429", "s5xx", "throw"}, cat \in ErrorCategory :
            /\ o = "throw" => cat \in ThrowCats
            /\ o \in {"ok", "empty", "s5xx"} => cat = "unknown"
            /\ IF o = "ok"
               THEN /\ succeed(r, email, q.usedModel, "primary")
                    /\ res' = [res EXCEPT ![r] = resJson(@, 200, "payload")]
               ELSE /\ UNCHANGED res
                    /\ IF o = "empty"
                       THEN /\ rq' = [rq EXCEPT ![r] = continue([q EXCEPT !.out = o])]
                            /\ UNCHANGED cooldownState
                       ELSE IF o = "s429" /\ fallback # NoModel
                       THEN /\ rq' = [rq EXCEPT ![r] =
                                        [q EXCEPT !.pc = "fbcall",
                                                  !.first429 = classify429(cat)]]
                            /\ UNCHANGED cooldownState
                       ELSE IF o = "s429"
                       THEN failWith(r, email, classify429(cat), o)
                       ELSE IF o = "s5xx"
                       THEN /\ rq' = [rq EXCEPT ![r] = continue([q EXCEPT !.stat = "failed",
                                                                          !.out = o])]
                            /\ UNCHANGED cooldownState
                       ELSE failWith(r, email, cat, o)
    /\ UNCHANGED <<acctList, buckets>>
    /\ UNCHANGED <<queue, gpc, gres, tokVars, regVars, scnVars, tailVars>>

\* the fallback call of the unary rotation settles
FallbackDone(r) ==
    /\ rq[r].pc = "fbcall"
    /\ LET q == rq[r]
           email == q.accounts[q.idx]
           fallback == getFallbackModel(q.usedModel)
       IN \E o \in {"fb_ok", "fb_empty", "fb_notok", "fb_throw"}, cat \in ThrowCats :
            /\ o # "fb_throw" => cat = "unknown"
            /\ IF o = "fb_ok"
               THEN /\ succeed(r, email, fallback, "fallback")
                    /\ res' = [res EXCEPT ![r] = resJson(@, 200, "payload")]
               ELSE /\ UNCHANGED res
                    /\ IF o = "fb_throw" THEN failWith(r, email, cat, o)
                       ELSE failWith(r, email, q.first429, o)
    /\ UNCHANGED <<acctList, buckets>>
    /\ UNCHANGED <<gateVars, tokVars, regVars, scnVars, tailVars>>

\* a 2xx stream is taken: headers are written unless they already were, then
\* pipeStream is awaited
beginPipe(r, q, m, how) ==
    /\ rq' = [rq EXCEPT ![r] = [q EXCEPT !.pc = "pipe", !.usedModel = m, !.first429 = "none",
                                         !.via = how]]
    /\ res' = [res EXCEPT ![r] =
                  IF q.kind # "admin" /\ ~@.headersSent THEN resWriteHead(@) ELSE @]
    /\ UNCHANGED cooldownState

\* the primary streaming call answers
StreamResp(r) ==
    /\ rq[r].pc = "scall"
    /\ LET q == rq[r]
           email == q.accounts[q.idx]
           fallback == getFallbackModel(q.usedModel)
       IN \E o \in {"s200", "s429", "s5xx", "throw"}, cat \in ErrorCategory :
            /\ o = "throw" => cat \in ThrowCats
            /\ o \in {"s200", "s5xx"} => cat = "unknown"
            /\ IF o = "s200" THEN beginPipe(r, q, q.usedModel, "primary")
               ELSE /\ UNCHANGED res
                    /\ IF o = "s429" /\ fallback # NoModel
                       THEN /\ rq' = [rq EXCEPT ![r] =
                                        [q EXCEPT !.pc = "sfbcall",
                                                  !.first429 = classify429(cat)]]
                            /\ UNCHANGED cooldownState
                       ELSE IF o = "s429"
                       THEN failWith(r, email, classify429(cat), o)
                       ELSE IF o = "s5xx"
                       THEN /\ rq' = [rq EXCEPT ![r] = continue([q EXCEPT !.stat = "failed",
                                                                          !.out = o])]
                            /\ UNCHANGED cooldownState
                       ELSE failWith(r, email, cat, o)
    /\ UNCHANGED <<acctList, buckets>>
    /\ UNCHANGED <<gateVars, tokVars, regVars, scnVars, tailVars>>

\* the fallback streaming call answers
StreamFallbackResp(r) ==
    /\ rq[r].pc = "sfbcall"
    /\ LET q == rq[r]
           email == q.accounts[q.idx]
           fallback == getFallbackModel(q.usedModel)
       IN \E o \in {"fb_s200", "fb_notok", "fb_throw"}, cat \in ThrowCats :
            /\ o # "fb_throw" => cat = "unknown"
            /\ IF o = "fb_s200" THEN beginPipe(r, q, fallback, "fallback")
               ELSE /\ UNCHANGED res
                    /\ IF o = "fb_throw" THEN failWith(r, email, cat, o)
                       ELSE failWith(r, email, q.first429, o)
    /\ UNCHANGED <<acctList, buckets>>
    /\ UNCHANGED <<gateVars, tokVars, regVars, scnVars, tailVars>>

\* pipeStream, 'data': a parsed frame is re-emitted, an unparsable line is
\* forwarded verbatim
PipeData(r) ==
    /\ rq[r].pc = "pipe"
    /\ Len(res[r].body) < MaxFrames
    /\ \E line \in {"json", "unparsable"} :
          res' = [res EXCEPT ![r] = resWrite(@, IF line = "json" THEN "frame" ELSE "raw")]
    /\ UNCHANGED <<acctList, cooldownState, buckets, rq>>
    /\ UNCHANGED <<gateVars, tokVars, regVars, scnVars, tailVars>>

\* pipeStream, 'end': [DONE], res.end(), then the success bookkeeping
PipeEnd(r) ==
    /\ rq[r].pc = "pipe"
    /\ LET q == rq[r] IN
         /\ succeed(r, q.accounts[q.idx], q.usedModel, q.via)
         /\ res' = [res EXCEPT ![r] = resEnd(resWrite(@, "[DONE]"))]
    /\ UNCHANGED <<acctList, buckets>>
    /\ UNCHANGED <<gateVars, tokVars, regVars, scnVars, tailVars>>

\* pipeStream, 'error': the handler ends the response and rejects; the catch
\* records the failure, then ends for good if the response is committed
PipeError(r) ==
    /\ rq[r].pc = "pipe"
    /\ LET q == rq[r]
           email == q.accounts[q.idx]
           rs1 == endIfOpen(res[r])
       IN \E cat \in ThrowCats :
            /\ cooldownState' = markAccountCooldown(cooldownState, email, cat)
            /\ IF committed(rs1)
               THEN /\ res' = [res EXCEPT ![r] = endIfOpen(rs1)]
                    /\ rq' = [rq EXCEPT ![r] = [q EXCEPT !.pc = "done", !.result = "aborted",
                                                         !.stat = "failed", !.out = "pipe_error",
                                                         !.failedAfterHeaders = res[r].headersSent]]
               ELSE /\ res' = [res EXCEPT ![r] = rs1]
                    /\ rq' = [rq EXCEPT ![r] = continue([q EXCEPT !.stat = "failed", !.out = "pipe_error",
                                                         !.failedAfterHeaders = res[r].headersSent])]
    /\ UNCHANGED <<acctList, buckets>>
    /\ UNCHANGED <<gateVars, tokVars, regVars, scnVars, tailVars>>

\* the backoff sleep between two rounds is over
Backoff(r) ==
    /\ rq[r].pc = "backoff"
    /\ rq' = [rq EXCEPT ![r] = [@ EXCEPT !.pc = "select", !.attempt = @ + 1]]
    /\ UNCHANGED <<acctList, cooldownState, buckets, res>>
    /\ UNCHANGED <<gateVars, tokVars, regVars, scnVars, tailVars>>

\* time passes for a cooldown entry: the clock enters the probe margin, reaches
\* cooldownUntil, or gets MIN_PROBE_INTERVAL_MS past the last probe
CooldownTimePasses(e) ==
    /\ cooldownState[e] # NoEntry
    /\ \E ph \in {"far", "near", "expired"}, due \in BOOLEAN :
        LET c == cooldownState[e] IN
        /\ <<ph, due>> # <<c.phase, c.probeDue>>
        /\ c.probeDue => due
        /\ \/ ph = c.phase
           \/ c.phase = "far" /\ ph = "near" /\ c.reason \notin {"auth", "billing"}
           \/ c.phase = "near" /\ ph = "expired"
        /\ cooldownState' = [cooldownState EXCEPT ![e] = [c EXCEPT !.phase = ph, !.probeDue = due]]
    /\ UNCHANGED <<acctList, buckets, rq, res>>
    /\ UNCHANGED <<gateVars, tokVars, regVars, scnVars, tailVars>>

\* the rate limiter's window of an identity runs out: the next consume starts anew
RateWindowPasses(e) ==
    /\ buckets[e] = "full"
    /\ buckets' = [buckets EXCEPT ![e] = "open"]
    /\ UNCHANGED <<acctList, cooldownState, rq, res>>
    /\ UNCHANGED <<gateVars, tokVars, regVars, scnVars, tailVars>>

EngStep ==
    \/ \E r \in Reqs :
        \/ Start(r)
        \/ Select(r)
        \/ Iterate(r)
        \/ Stagger(r)
        \/ Token(r)
        \/ CallDone(r)
        \/ FallbackDone(r)
        \/ StreamResp(r)
        \/ StreamFallbackResp(r)
        \/ PipeData(r)
        \/ PipeEnd(r)
        \/ PipeError(r)
        \/ Backoff(r)
    \/ \E e \in Emails : CooldownTimePasses(e) \/ RateWindowPasses(e)


(***************************************************************************)
(* Part 4.  account-cooldown.ts for one identity, with Date.now(): the     *)
(* registry entry as the rotation loops of concurrent requests drive it.   *)
(***************************************************************************)
MIN_PROBE_INTERVAL_MS == 30000
NumUsers == 3
MaxTicks == 7
MaxMarks == 5
\* the clock moves in steps of the shortest cooldown
TickMs == TIMEOUT_COOLDOWN_MS
\* Date.now() when the process starts: an epoch far past MIN_PROBE_INTERVAL_MS
StartNow == QUOTA_COOLDOWN_MS
Undefined == -1
NoState == [cooldownUntil |-> 0, reason |-> "none", failureCount |-> 0,
            lastProbeAt |-> Undefined]
\* the categories the rotation marks an identity with
MarkCats == {"rate_limit", "quota", "auth", "billing", "timeout", "unknown"}

\* markAccountCooldown at Date.now() = t
markAccountCooldownAt(state, category, t) ==
    LET failureCount == (IF state = NoState THEN 0 ELSE state.failureCount) + 1
        cooldownMs == calculateCooldownMs(category, failureCount)
    IN  [cooldownUntil |-> t + cooldownMs, reason |-> category,
         failureCount |-> failureCount,
         lastProbeAt |-> IF state = NoState THEN Undefined ELSE state.lastProbeAt]

\* clearAccountCooldown: cooldownState.delete(email)
clearAccountCooldown(state) == NoState

\* isAccountInCooldown at Date.now() = t: its value, and the entry it leaves
isAccountInCooldownAt(state, t) == state # NoState /\ ~(t >= state.cooldownUntil)
afterCooldownCheckAt(state, t) ==
    IF state # NoState /\ t >= state.cooldownUntil THEN clearAccountCooldown(state)
    ELSE state

\* shouldProbeAccount at Date.now() = t
shouldProbeAccountAtAnyReason(state, t) ==
    IF state = NoState THEN FALSE
    ELSE IF state.reason \in {"auth", "billing"} THEN FALSE
    ELSE LET lastProbe == IF state.lastProbeAt = Undefined THEN 0 ELSE state.lastProbeAt
         IN  ~(t - lastProbe < MIN_PROBE_INTERVAL_MS)
shouldProbeAccountAt(state, t) ==
    IF state = NoState THEN FALSE
    ELSE IF state.reason \in {"auth", "billing"} THEN FALSE
    ELSE LET lastProbe == IF state.lastProbeAt = Undefined THEN 0 ELSE state.lastProbeAt
         IN  IF t - lastProbe < MIN_PROBE_INTERVAL_MS THEN FALSE
             ELSE IF t >= state.cooldownUntil - PROBE_MARGIN_MS THEN TRUE
             ELSE state.reason \in {"rate_limit", "overloaded"}

\* recordProbe at Date.now() = t
recordProbeAt(state, t) ==
    IF state # NoState THEN [state EXCEPT !.lastProbeAt = t] ELSE state

\* markAccountSuccess
markAccountSuccessStale(state) == state
markAccountSuccessOf(state) ==
    IF state # NoState THEN clearAccountCooldown(state) ELSE state

\* clearExpiredCooldowns at Date.now() = t, for this entry
clearExpiredCooldownsAt(state, t) ==
    IF state # NoState /\ t >= state.cooldownUntil THEN NoState ELSE state

\* the succession of rate_limit marks on the entry: it ends with the entry,
\* and a mark of another category breaks it for as long as the entry lasts
Broken == -2
streakAfterMark(k, category) ==
    IF category = "rate_limit" /\ k # Broken THEN k + 1 ELSE Broken
streakAfter(k, state) == IF state = NoState THEN 0 ELSE k

RegStart ==
    /\ now = StartNow
    /\ cooldown = NoState
    /\ inUse = 0
    /\ prevProbeAt = Undefined
    /\ probeGap = Undefined
    /\ streak = 0
    /\ authMarked = FALSE
    /\ forgot = Undefined

\* time passes
RegTick ==
    /\ now + TickMs <= StartNow + MaxTicks * TickMs
    /\ now' = now + TickMs
    /\ UNCHANGED <<cooldown, inUse, prevProbeAt, probeGap, streak, authMarked, forgot>>
    /\ UNCHANGED <<gateVars, tokVars, engVars, scnVars, tailVars>>

\* selectReadyAccounts at the top of a round: clearExpiredCooldowns()
RegSweep ==
    /\ cooldown' = clearExpiredCooldownsAt(cooldown, now)
    /\ cooldown' # cooldown
    /\ streak' = streakAfter(streak, cooldown')
    /\ UNCHANGED <<now, inUse, prevProbeAt, probeGap, authMarked, forgot>>
    /\ UNCHANGED <<gateVars, tokVars, engVars, scnVars, tailVars>>

\* the head of an iteration for the identity: the cooldown check with the
\* probe, then the rate budget; a request that passes holds the identity
RegCheck ==
    /\ inUse < NumUsers
    /\ \E allowed \in BOOLEAN :
        LET inCooldown == isAccountInCooldownAt(cooldown, now)
            c1 == afterCooldownCheckAt(cooldown, now)
            probe == inCooldown /\ shouldProbeAccountAt(c1, now)
            skipped == inCooldown /\ ~probe
            used == ~skipped /\ allowed
        IN  /\ skipped => allowed
            /\ cooldown' = IF probe THEN recordProbeAt(c1, now) ELSE c1
            /\ streak' = streakAfter(streak, cooldown')
            /\ inUse' = IF used THEN inUse + 1 ELSE inUse
            /\ IF probe /\ used
               THEN /\ prevProbeAt' = now
                    /\ probeGap' = IF prevProbeAt = Undefined THEN Undefined
                                   ELSE now - prevProbeAt
               ELSE UNCHANGED <<prevProbeAt, probeGap>>
    /\ UNCHANGED <<now, authMarked, forgot>>
    /\ UNCHANGED <<gateVars, tokVars, engVars, scnVars, tailVars>>

\* the iteration's call succeeds: markAccountSuccess
RegSuccess ==
    /\ inUse > 0
    /\ inUse' = inUse - 1
    /\ cooldown' = markAccountSuccessOf(cooldown)
    /\ streak' = streakAfter(streak, cooldown')
    /\ forgot' = cooldown.failureCount
    /\ UNCHANGED <<now, prevProbeAt, probeGap, authMarked>>
    /\ UNCHANGED <<gateVars, tokVars, engVars, scnVars, tailVars>>

\* the iteration fails with a category: markAccountCooldown
RegFail ==
    /\ inUse > 0
    /\ cooldown.failureCount < MaxMarks
    /\ inUse' = inUse - 1
    /\ \E category \in MarkCats :
        /\ cooldown' = markAccountCooldownAt(cooldown, category, now)
        /\ streak' = streakAfterMark(streak, category)
        /\ authMarked' = (authMarked \/ category \in {"auth", "billing"})
    /\ forgot' = Undefined
    /\ UNCHANGED <<now, prevProbeAt, probeGap>>
    /\ UNCHANGED <<gateVars, tokVars, engVars, scnVars, tailVars>>

\* the iteration ends without a registry call: an empty candidate list, a
\* non-2xx other than 429
RegNeutral ==
    /\ inUse > 0
    /\ inUse' = inUse - 1
    /\ UNCHANGED <<now, cooldown, prevProbeAt, probeGap, streak, authMarked, forgot>>
    /\ UNCHANGED <<gateVars, tokVars, engVars, scnVars, tailVars>>

RegStep ==
    \/ RegTick
    \/ RegSweep
    \/ RegCheck
    \/ RegSuccess
    \/ RegFail
    \/ RegNeutral

(***************************************************************************)
(* Part 5.  One unary request through tryGenerateContentWithAccounts with  *)
(* a single identity whose upstream answers every call with 429 and the    *)
(* body "quota exceeded", on the clock of Part 4.                          *)
(***************************************************************************)
BASE_RETRY_DELAY_MS == 2000
MAX_RETRY_DELAY_MS == 60000
REQUEST_TIMEOUT_MS == 30000
RL_MAX_REQUESTS == 60
RL_WINDOW_MS == 60000

\* how long an await may take: at once, a while, up to nativeFetch's timeout
AwaitMs == {0, TickMs, REQUEST_TIMEOUT_MS}

\* chat.ts applyJitter: the two ends and the middle of Math.random()'s range
applyJitter(delayMs) == {(delayMs * 8) \div 10, delayMs, (delayMs * 12) \div 10}
\* chat.ts computeBackoffDelay
computeBackoffDelay(attempt) ==
    applyJitter(Min(BASE_RETRY_DELAY_MS * Pow2(attempt), MAX_RETRY_DELAY_MS))

\* rate-limiter.ts consume at Date.now() = t: the bucket it leaves, and its answer
NoBucket == [count |-> 0, windowStartMs |-> Undefined]
bucketAtStrict(bucket, t) ==
    IF bucket = NoBucket \/ t - bucket.windowStartMs > RL_WINDOW_MS
    THEN [count |-> 0, windowStartMs |-> t] ELSE bucket
bucketAt(bucket, t) ==
    IF bucket = NoBucket \/ t - bucket.windowStartMs >= RL_WINDOW_MS
    THEN [count |-> 0, windowStartMs |-> t] ELSE bucket
consumeAllowed(bucket, t) == ~(bucketAt(bucket, t).count >= RL_MAX_REQUESTS)
consume(bucket, t) ==
    IF consumeAllowed(bucket, t)
    THEN [bucketAt(bucket, t) EXCEPT !.count = @ + 1] ELSE bucketAt(bucket, t)

\* the body of every answer of the identity, and what classify429 makes of it
QuotaExceededBody == Text(0, {"quota"})

S2Rest ==
    s2 = [pc |-> "idle", model |-> "none", attempt |-> 0, failed |-> 0, status |-> 0,
          markedAt |-> Undefined, calls |-> 0, bucket |-> NoBucket,
          \* the identity's stored isActive flag: getActiveAccounts returned it
          isActive |-> TRUE]

\* handleGenerateContent: a valid request enters the rotation
S2Begin ==
    /\ s2.pc = "idle"
    /\ \E m \in RequestedModels : s2' = [s2 EXCEPT !.pc = "select", !.model = resolveModel(m)]
    /\ UNCHANGED <<gateVars, tokVars, engVars, regVars, tailVars>>

\* top of a round: the loop test, else await selectReadyAccounts()
S2Select ==
    /\ s2.pc = "select"
    /\ IF ~moreRounds(s2.attempt)
       THEN /\ s2' = [s2 EXCEPT !.pc = "done", !.status = 503]
            /\ UNCHANGED <<now, cooldown, streak>>
       ELSE /\ cooldown' = clearExpiredCooldownsAt(cooldown, now)
            /\ streak' = streakAfter(streak, cooldown')
            /\ \E d \in AwaitMs : now' = now + d
            /\ s2' = [s2 EXCEPT !.pc = "iter"]
    /\ UNCHANGED <<inUse, prevProbeAt, probeGap, authMarked, forgot>>
    /\ UNCHANGED <<gateVars, tokVars, engVars, tailVars>>

\* the loop head for the one identity: cooldown check with probe, rate
\* budget; i = 0, so no stagger
S2Iterate ==
    /\ s2.pc = "iter"
    /\ LET inCooldown == isAccountInCooldownAt(cooldown, now)
           c1 == afterCooldownCheckAt(cooldown, now)
           probe == inCooldown /\ shouldProbeAccountAt(c1, now)
           skipped == inCooldown /\ ~probe
       IN  /\ cooldown' = IF probe THEN recordProbeAt(c1, now) ELSE c1
           /\ streak' = streakAfter(streak, cooldown')
           /\ s2' = IF skipped THEN [s2 EXCEPT !.pc = "roundend"]
                    ELSE [s2 EXCEPT !.bucket = consume(@, now),
                                    !.pc = IF consumeAllowed(s2.bucket, now)
                                           THEN "token" ELSE "roundend"]
    /\ UNCHANGED <<now, inUse, prevProbeAt, probeGap, authMarked, forgot>>
    /\ UNCHANGED <<gateVars, tokVars, engVars, tailVars>>

\* ensureFreshToken resolves and the primary call goes out
S2Token ==
    /\ s2.pc = "token"
    /\ \E d \in AwaitMs : now' = now + d
    /\ s2' = [s2 EXCEPT !.pc = "call", !.calls = @ + 1]
    /\ UNCHANGED <<cooldown, inUse, prevProbeAt, probeGap, streak, authMarked, forgot>>
    /\ UNCHANGED <<gateVars, tokVars, engVars, tailVars>>

\* the 429 branch after the fallback, if any, has failed: classify429 of the
\* body, markAccountCooldown
s2Mark(t) ==
    LET category == classify429(classifyError(QuotaExceededBody))
    IN  /\ cooldown' = markAccountCooldownAt(cooldown, category, t)
        /\ streak' = streakAfterMark(streak, category)
        /\ authMarked' = (authMarked \/ category \in {"auth", "billing"})
        /\ forgot' = Undefined

\* the primary call is answered 429: the fallback model is tried if there is one
S2Call ==
    /\ s2.pc = "call"
    /\ \E d \in AwaitMs :
        /\ now' = now + d
        /\ IF getFallbackModel(s2.model) # NoModel
           THEN /\ s2' = [s2 EXCEPT !.pc = "fbcall", !.calls = @ + 1]
                /\ UNCHANGED <<cooldown, streak, authMarked, forgot>>
           ELSE /\ s2Mark(now + d)
                /\ s2' = [s2 EXCEPT !.pc = "stats", !.markedAt = now + d]
    /\ UNCHANGED <<inUse, prevProbeAt, probeGap>>
    /\ UNCHANGED <<gateVars, tokVars, engVars, tailVars>>

\* the fallback call is answered 429 as well
S2Fallback ==
    /\ s2.pc = "fbcall"
    /\ \E d \in AwaitMs :
        /\ now' = now + d
        /\ s2Mark(now + d)
        /\ s2' = [s2 EXCEPT !.pc = "stats", !.markedAt = now + d]
    /\ UNCHANGED <<inUse, prevProbeAt, probeGap>>
    /\ UNCHANGED <<gateVars, tokVars, engVars, tailVars>>

\* await db.incrementAccountStats(email, {failed: 1}), then continue: the
\* list is at its end
S2Stats ==
    /\ s2.pc = "stats"
    /\ \E d \in AwaitMs : now' = now + d
    /\ s2' = [s2 EXCEPT !.pc = "roundend", !.failed = @ + 1]
    /\ UNCHANGED <<cooldown, inUse, prevProbeAt, probeGap, streak, authMarked, forgot>>
    /\ UNCHANGED <<gateVars, tokVars, engVars, tailVars>>

\* after the identity loop: the backoff sleep, unless this was the last round
S2RoundEnd ==
    /\ s2.pc = "roundend"
    /\ IF s2.attempt < MAX_ATTEMPTS - 1
       THEN \E delay \in computeBackoffDelay(s2.attempt) : now' = now + delay
       ELSE UNCHANGED now
    /\ s2' = [s2 EXCEPT !.pc = "select", !.attempt = @ + 1]
    /\ UNCHANGED <<cooldown, inUse, prevProbeAt, probeGap, streak, authMarked, forgot>>
    /\ UNCHANGED <<gateVars, tokVars, engVars, tailVars>>

S2Step ==
    \/ S2Begin
    \/ S2Select
    \/ S2Iterate
    \/ S2Token
    \/ S2Call
    \/ S2Fallback
    \/ S2Stats
    \/ S2RoundEnd

(***************************************************************************)
(* Part 6.  account-manager.ts getReadyAccounts / refreshCache over the    *)
(* persisted accounts, on the clock of Part 4, and the rounds that walk    *)
(* the list they were handed.                                              *)
(***************************************************************************)
CACHE_TTL_MS == 5000
NumReaders == 2
MaxCacheTicks == 3
Readers == 1..NumReaders
NoPromise == [startedAt |-> Undefined, accounts |-> <<>>]
\* the order in which persistence enumerates its rows
DbRows == <<"a", "b">>

\* the Account object persistence makes of a row
rowToAccount(db, e) == [email |-> e, lastUsedAt |-> db[e].lastUsedAt]

\* Array.prototype.sort with (a, b) => a.lastUsedAt - b.lastUsedAt: stable
RECURSIVE insertSorted(_, _)
insertSorted(sorted, x) ==
    IF sorted = <<>> THEN <<x>>
    ELSE LET last == sorted[Len(sorted)]
         IN  IF last.lastUsedAt - x.lastUsedAt <= 0 THEN Append(sorted, x)
             ELSE Append(insertSorted(SubSeq(sorted, 1, Len(sorted) - 1), x), last)
RECURSIVE sortByLastUsedAt(_)
sortByLastUsedAt(list) ==
    IF list = <<>> THEN <<>>
    ELSE insertSorted(sortByLastUsedAt(SubSeq(list, 1, Len(list) - 1)), list[Len(list)])

\* the rows with isActive, in row order
RECURSIVE activeRows(_, _)
activeRows(db, rows) ==
    IF rows = <<>> THEN <<>>
    ELSE (IF db[Head(rows)].isActive THEN <<rowToAccount(db, Head(rows))>> ELSE <<>>)
         \o activeRows(db, Tail(rows))

\* db.getActiveAccounts()
getActiveAccountsUnsorted(db) == activeRows(db, DbRows)
getActiveAccounts(db) == sortByLastUsedAt(activeRows(db, DbRows))

NoReturn == [list |-> <<>>, loaded |-> FALSE, age |-> 0, refreshMs |-> 0,
             refreshing |-> FALSE, cold |-> FALSE]
\* what a return of getReadyAccounts hands out at Date.now() = t
returned(list, updatedAt, loadedAt, promise, t, cold) ==
    [list |-> list, loaded |-> updatedAt # 0,
     age |-> IF updatedAt # 0 THEN t - loadedAt ELSE 0,
     refreshMs |-> IF updatedAt # 0 THEN updatedAt - loadedAt ELSE 0,
     refreshing |-> promise # NoPromise, cold |-> cold]

IdleReader == [pc |-> "idle", list |-> <<>>, i |-> 0]

CacheRest ==
    /\ dbAccounts = [e \in Emails |-> [isActive |-> TRUE, lastUsedAt |-> 0]]
    /\ cachedAccounts = <<>>
    /\ cacheUpdatedAt = 0
    /\ cacheRefreshPromise = NoPromise
    /\ cacheLoadedAt = 0
    /\ rd = [r \in Readers |-> IdleReader]
    /\ lastRet = NoReturn

CacheStart ==
    /\ dbAccounts \in [Emails -> [isActive : BOOLEAN, lastUsedAt : {1000, 2000}]]
    /\ cachedAccounts = <<>>
    /\ cacheUpdatedAt = 0
    /\ cacheRefreshPromise = NoPromise
    /\ cacheLoadedAt = 0
    /\ rd = [r \in Readers |-> IdleReader]
    /\ lastRet = NoReturn

\* refreshCache(): the refresh started unless one is in flight; the read of
\* persistence is under way from here on
refreshCache(promise, db, t) ==
    IF promise # NoPromise THEN promise
    ELSE [startedAt |-> t, accounts |-> getActiveAccounts(db)]

\* the cache is stale: now - cacheUpdatedAt > CACHE_TTL_MS
isStaleNever(updatedAt, t) == FALSE
isStale(updatedAt, t) == t - updatedAt > CACHE_TTL_MS

\* time passes
CacheTick ==
    /\ now + TickMs <= StartNow + MaxCacheTicks * TickMs
    /\ now' = now + TickMs
    /\ UNCHANGED <<cooldown, inUse, prevProbeAt, probeGap, streak, authMarked, forgot>>
    /\ UNCHANGED cacheVars
    /\ UNCHANGED <<gateVars, tokVars, engVars, scnVars, tailButCache>>

\* getReadyAccounts(): the cold start waits for the load, otherwise the
\* cached list is returned at once, with a background refresh if stale
GetReadyAccounts(r) ==
    /\ rd[r].pc = "idle"
    /\ IF Len(cachedAccounts) = 0 /\ cacheUpdatedAt = 0
       THEN /\ cacheRefreshPromise' = refreshCache(cacheRefreshPromise, dbAccounts, now)
            /\ rd' = [rd EXCEPT ![r].pc = "coldwait"]
            /\ UNCHANGED lastRet
       ELSE /\ cacheRefreshPromise' =
                  IF isStale(cacheUpdatedAt, now)
                  THEN refreshCache(cacheRefreshPromise, dbAccounts, now)
                  ELSE cacheRefreshPromise
            /\ rd' = [rd EXCEPT ![r] = [pc |-> "round", list |-> cachedAccounts, i |-> 0]]
            /\ lastRet' = returned(cachedAccounts, cacheUpdatedAt, cacheLoadedAt,
                                   cacheRefreshPromise', now, FALSE)
    /\ UNCHANGED <<dbAccounts, cachedAccounts, cacheUpdatedAt, cacheLoadedAt>>
    /\ UNCHANGED <<gateVars, tokVars, engVars, regVars, scnVars, tailButCache>>

\* the callers that awaited the refresh go on: return cachedAccounts
resumeColdWaiters(readers, list) ==
    [r \in Readers |->
        IF readers[r].pc = "coldwait" THEN [pc |-> "round", list |-> list, i |-> 0]
        ELSE readers[r]]

\* the refresh in flight succeeds: the list and its time are stored
RefreshCacheDone ==
    /\ cacheRefreshPromise # NoPromise
    /\ cachedAccounts' = cacheRefreshPromise.accounts
    /\ cacheUpdatedAt' = now
    /\ cacheLoadedAt' = cacheRefreshPromise.startedAt
    /\ cacheRefreshPromise' = NoPromise
    /\ rd' = resumeColdWaiters(rd, cachedAccounts')
    /\ lastRet' = IF \E r \in Readers : rd[r].pc = "coldwait"
                  THEN returned(cachedAccounts', now, cacheLoadedAt', NoPromise, now, TRUE)
                  ELSE lastRet
    /\ UNCHANGED dbAccounts
    /\ UNCHANGED <<gateVars, tokVars, engVars, regVars, scnVars, tailButCache>>

\* the refresh in flight fails: the prior list is kept
RefreshCacheFail ==
    /\ cacheRefreshPromise # NoPromise
    /\ cacheRefreshPromise' = NoPromise
    /\ rd' = resumeColdWaiters(rd, cachedAccounts)
    /\ lastRet' = IF \E r \in Readers : rd[r].pc = "coldwait"
                  THEN returned(cachedAccounts, cacheUpdatedAt, cacheLoadedAt, NoPromise,
                                now, TRUE)
                  ELSE lastRet
    /\ UNCHANGED <<dbAccounts, cachedAccounts, cacheUpdatedAt, cacheLoadedAt>>
    /\ UNCHANGED <<gateVars, tokVars, engVars, regVars, scnVars, tailButCache>>

\* the round walks its list: the next identity is attempted, and
\* incrementAccountStats stamps its lastUsedAt in persistence
AttemptNext(r) ==
    /\ rd[r].pc = "round"
    /\ rd[r].i < Len(rd[r].list)
    /\ rd' = [rd EXCEPT ![r].i = @ + 1]
    /\ dbAccounts' = [dbAccounts EXCEPT ![rd[r].list[rd[r].i + 1].email].lastUsedAt = now]
    /\ UNCHANGED <<cachedAccounts, cacheUpdatedAt, cacheRefreshPromise, cacheLoadedAt, lastRet>>
    /\ UNCHANGED <<gateVars, tokVars, engVars, regVars, scnVars, tailButCache>>

\* the round is over
RoundOver(r) ==
    /\ rd[r].pc = "round"
    /\ rd[r].i = Len(rd[r].list)
    /\ rd' = [rd EXCEPT ![r] = IdleReader]
    /\ UNCHANGED <<dbAccounts, cachedAccounts, cacheUpdatedAt, cacheRefreshPromise,
                   cacheLoadedAt, lastRet>>
    /\ UNCHANGED <<gateVars, tokVars, engVars, regVars, scnVars, tailButCache>>

CacheStep ==
    \/ CacheTick
    \/ RefreshCacheDone
    \/ RefreshCacheFail
    \/ \E r \in Readers :
        \/ GetReadyAccounts(r)
        \/ AttemptNext(r)
        \/ RoundOver(r)

(***************************************************************************)
(* Part 7.  rate-limiter.ts: the fixed window of one key, on the clock of  *)
(* Part 4.                                                                 *)
(***************************************************************************)
MaxLimTicks == 5
\* the clock moves in halves of the window
LimTickMs == RL_WINDOW_MS \div 2

\* consume(key) at Date.now() = t: what it returns
consumeResult(bucket, t) ==
    LET b == bucketAt(bucket, t)
    IN  IF b.count >= RL_MAX_REQUESTS
        THEN [allowed |-> FALSE,
              retryAfterMs |-> Max(0, b.windowStartMs + RL_WINDOW_MS - t),
              remaining |-> 0]
        ELSE [allowed |-> TRUE, retryAfterMs |-> 0,
              remaining |-> Max(0, RL_MAX_REQUESTS - (b.count + 1))]

NoConsume == [allowed |-> FALSE, retryAfterMs |-> 0, remaining |-> 0,
              before |-> NoBucket, at |-> 0]

LimRest ==
    /\ rlBucket = NoBucket
    /\ lastConsume = NoConsume

\* time passes
LimTick ==
    /\ now + LimTickMs <= StartNow + MaxLimTicks * LimTickMs
    /\ now' = now + LimTickMs
    /\ UNCHANGED <<cooldown, inUse, prevProbeAt, probeGap, streak, authMarked, forgot>>
    /\ UNCHANGED limVars
    /\ UNCHANGED <<gateVars, tokVars, engVars, scnVars, tailButLim>>

\* accountRateLimiter.consume(key)
Consume ==
    /\ rlBucket' = consume(rlBucket, now)
    /\ lastConsume' = [allowed |-> consumeResult(rlBucket, now).allowed,
                       retryAfterMs |-> consumeResult(rlBucket, now).retryAfterMs,
                       remaining |-> consumeResult(rlBucket, now).remaining,
                       before |-> rlBucket, at |-> now]
    /\ UNCHANGED <<gateVars, tokVars, engVars, regVars, scnVars, tailButLim>>

LimStep ==
    \/ LimTick
    \/ Consume

(***************************************************************************)
(* Part 8.  chat.ts pipeStream: the upstream SSE text arrives in chunks,   *)
(* is cut into lines and re-emitted on the downstream response.  Text is a *)
(* sequence of tokens.                                                     *)
(***************************************************************************)
MaxChunks == 3
MaxChunkLen == 2

NL == "\n"
SP == " "
DataPrefix == "data: "
DoneMarker == "[DONE]"
JsonObject == "{json}"
JsonEnvelope == "{response}"
Tokens == {DataPrefix, JsonObject, JsonEnvelope, DoneMarker, SP, NL}
Chunks == UNION {[1..n -> Tokens] : n \in 1..MaxChunkLen}

\* String.prototype.split('\n')
RECURSIVE split(_)
split(s) ==
    IF \A i \in 1..Len(s) : s[i] # NL THEN <<s>>
    ELSE LET k == CHOOSE i \in 1..Len(s) : s[i] = NL /\ \A j \in 1..(i - 1) : s[j] # NL
         IN  <<SubSeq(s, 1, k - 1)>> \o split(SubSeq(s, k + 1, Len(s)))

\* String.prototype.trim()
RECURSIVE trim(_)
trim(s) ==
    IF s = <<>> THEN s
    ELSE IF Head(s) = SP THEN trim(Tail(s))
    ELSE IF s[Len(s)] = SP THEN trim(SubSeq(s, 1, Len(s) - 1))
    ELSE s

\* line.startsWith('data: ')
startsWithData(line) == line # <<>> /\ Head(line) = DataPrefix
\* line.substring(6).trim()
jsonStrOf(line) == trim(Tail(line))
\* !jsonStr || jsonStr === '[DONE]'
skippedEmptyOnly(jsonStr) == jsonStr = <<>>
skipped(jsonStr) == jsonStr = <<>> \/ jsonStr = <<DoneMarker>>
\* JSON.parse(jsonStr) succeeds
parses(jsonStr) == jsonStr \in {<<JsonObject>>, <<JsonEnvelope>>}
\* the object that is forwarded: the envelope's response when unwrapEnvelope
forwarded(jsonStr, unwrapEnvelope) ==
    IF unwrapEnvelope /\ jsonStr = <<JsonEnvelope>> THEN <<JsonObject>> ELSE jsonStr

\* what the for loop writes for one line: a sequence of zero or one frames
writesOf(line, unwrapEnvelope) ==
    IF ~startsWithData(line) THEN <<>>
    ELSE IF skipped(jsonStrOf(line)) THEN <<>>
    ELSE IF parses(jsonStrOf(line))
    THEN <<<<DataPrefix>> \o forwarded(jsonStrOf(line), unwrapEnvelope)>>
    ELSE <<line>>

RECURSIVE writesOfAll(_, _)
writesOfAll(lines, unwrapEnvelope) ==
    IF lines = <<>> THEN <<>>
    ELSE writesOf(Head(lines), unwrapEnvelope) \o writesOfAll(Tail(lines), unwrapEnvelope)

\* the frame of the 'end' handler
DoneFrame == <<DataPrefix, DoneMarker>>

\* res.write on the downstream response: dropped once the response is ended
pipeWrite(rs, frames) ==
    IF rs.writableEnded THEN rs ELSE [rs EXCEPT !.body = @ \o frames]

PipeRest ==
    /\ pstream = "open"
    /\ pbuffer = <<>>
    /\ pchunks = 0
    /\ pres = [body |-> <<>>, writableEnded |-> FALSE]
    /\ ppromise = "pending"
    /\ punwrap = FALSE
    /\ psawDone = FALSE

\* pipeStream(stream, res, unwrapEnvelope) is called
PipeStart ==
    /\ pstream = "open"
    /\ pbuffer = <<>>
    /\ pchunks = 0
    /\ pres = [body |-> <<>>, writableEnded |-> FALSE]
    /\ ppromise = "pending"
    /\ punwrap \in BOOLEAN
    /\ psawDone = FALSE

\* stream.on('data')
OnData ==
    /\ pstream = "open"
    /\ pchunks < MaxChunks
    /\ \E chunk \in Chunks :
         LET lines == split(pbuffer \o chunk)
             complete == SubSeq(lines, 1, Len(lines) - 1)
         IN  /\ pbuffer' = lines[Len(lines)]
             /\ pres' = pipeWrite(pres, writesOfAll(complete, punwrap))
             /\ psawDone' = (psawDone \/ \E i \in 1..Len(complete) :
                                startsWithData(complete[i])
                                /\ jsonStrOf(complete[i]) = <<DoneMarker>>)
    /\ pchunks' = pchunks + 1
    /\ UNCHANGED <<pstream, ppromise, punwrap>>
    /\ UNCHANGED <<gateVars, tokVars, engVars, regVars, scnVars, tailButPipe>>

\* stream.on('end')
OnEnd ==
    /\ pstream = "open"
    /\ pstream' = "ended"
    /\ pres' = [pipeWrite(pres, <<DoneFrame>>) EXCEPT !.writableEnded = TRUE]
    /\ ppromise' = "resolved"
    /\ UNCHANGED <<pbuffer, pchunks, punwrap, psawDone>>
    /\ UNCHANGED <<gateVars, tokVars, engVars, regVars, scnVars, tailButPipe>>

\* stream.on('error')
OnError ==
    /\ pstream = "open"
    /\ pstream' = "errored"
    /\ pres' = [pres EXCEPT !.writableEnded = TRUE]
    /\ ppromise' = "rejected"
    /\ UNCHANGED <<pbuffer, pchunks, punwrap, psawDone>>
    /\ UNCHANGED <<gateVars, tokVars, engVars, regVars, scnVars, tailButPipe>>

PipeStep ==
    \/ OnData
    \/ OnEnd
    \/ OnError

(***************************************************************************)
(* Part 9.  chat.ts, the backoff between two rounds of the rotation: every *)
(* identity of a round failed, the last upstream response carried or did   *)
(* not carry a Retry-After header.                                         *)
(***************************************************************************)
NoHeader == [kind |-> "none", value |-> 0]
\* Retry-After as delay-seconds or as an HTTP-date (a time on the clock of Part 4)
RetryAfterHeaders ==
    {NoHeader}
    \cup {[kind |-> "seconds", value |-> s] : s \in {1, 30, 120}}
    \cup {[kind |-> "date", value |-> StartNow + ms] : ms \in {1000, 30000}}

\* the legacy controller's parseRetryAfterMs at Date.now() = t
parseRetryAfterMs(header, t) ==
    IF header.kind = "seconds" THEN header.value * 1000
    ELSE IF header.kind = "date" THEN Max(0, header.value - t)
    ELSE Undefined

BkRest == bk = [pc |-> "round", attempt |-> 0, retryAfter |-> NoHeader, delay |-> 0]

\* the for loop over the accounts of a round is over without a success; the
\* last upstream response had the header retryAfter
BkRoundFails ==
    /\ bk.pc = "round"
    /\ \E retryAfter \in RetryAfterHeaders :
         IF bk.attempt < MAX_ATTEMPTS - 1
         THEN \E delay \in computeBackoffDelay(bk.attempt) :
                bk' = [bk EXCEPT !.pc = "sleep", !.retryAfter = retryAfter, !.delay = delay]
         ELSE bk' = [bk EXCEPT !.pc = "over", !.retryAfter = retryAfter, !.delay = 0]
    /\ UNCHANGED <<gateVars, tokVars, engVars, regVars, scnVars, tailButBk>>

\* the timer of the backoff fires: the next round
BkWake ==
    /\ bk.pc = "sleep"
    /\ bk' = [bk EXCEPT !.pc = "round", !.attempt = @ + 1]
    /\ UNCHANGED <<gateVars, tokVars, engVars, regVars, scnVars, tailButBk>>

BkStep ==
    \/ BkRoundFails
    \/ BkWake

(***************************************************************************)
(* Part 10.  error-classifier.ts classifyError on texts.  A text is a      *)
(* sequence of phrases joined by blanks.                                   *)
(***************************************************************************)
MaxPhrases == 3

QuotaExceeded == "quota exceeded"
RateLimit429 == "429 rate limit"
UnknownModel == "unknown model"
Phrases == {QuotaExceeded, RateLimit429, UnknownModel, "401", "404", "500", "418", "error"}
Texts == UNION {[1..n -> Phrases] : n \in 1..MaxPhrases}

\* the three digits a phrase starts with, 0 = none
leadingDigits(phrase) ==
    IF phrase = RateLimit429 THEN 429
    ELSE IF phrase = "401" THEN 401
    ELSE IF phrase = "404" THEN 404
    ELSE IF phrase = "500" THEN 500
    ELSE IF phrase = "418" THEN 418
    ELSE 0

\* extractHttpStatus: /^(\d{3})\s+/, three digits and white space after them;
\* 0 = undefined
extractHttpStatus(phrases) ==
    IF leadingDigits(Head(phrases)) = 0 THEN 0
    ELSE IF Head(phrases) = RateLimit429 \/ Len(phrases) >= 2
    THEN leadingDigits(Head(phrases))
    ELSE 0

\* the groups of ERROR_PATTERNS with a pattern that matches the phrase
groupsOf(phrase) ==
    IF phrase = QuotaExceeded THEN {"quota"}
    ELSE IF phrase = RateLimit429 THEN {"rateLimit"}
    ELSE IF phrase = UnknownModel THEN {"modelNotFound"}
    ELSE IF phrase = "401" THEN {"auth"}
    ELSE {}

\* the text as classifyError reads it
textOf(phrases) ==
    Text(extractHttpStatus(phrases), UNION {groupsOf(phrases[i]) : i \in 1..Len(phrases)})

NoCategory == "none"

ClsRest ==
    /\ ctext = <<"error">>
    /\ ccat = NoCategory

ClsStart ==
    /\ ctext \in Texts
    /\ ccat = NoCategory

\* classifyError(text)
Classify ==
    /\ ccat = NoCategory
    /\ ccat' = classifyError(textOf(ctext))
    /\ UNCHANGED ctext
    /\ UNCHANGED <<gateVars, tokVars, engVars, regVars, scnVars, tailButCls>>

ClsStep == Classify

(***************************************************************************)
(* Part 11.  index.ts, one call of POST /v1beta/models/:model::action      *)
(* through the middleware chain: the setup redirect, apiLimiter,           *)
(* requireApiKey, the route handler.                                       *)
(***************************************************************************)
NoValue == "undefined"
KnownKey == "sk-known"
UnknownKey == "sk-unknown"
\* the Authorization header, the key query parameter, the x-goog-api-key header
AuthorizationHeaders == {NoValue, "Bearer ", "Bearer " \o UnknownKey, "Bearer " \o KnownKey}
KeyValues == {NoValue, UnknownKey, KnownKey}
Actions == {"generateContent", "streamGenerateContent", "countTokens"}

\* authHeader?.replace('Bearer ', '')
withoutBearer(authHeader) ==
    IF authHeader = NoValue THEN NoValue
    ELSE IF authHeader = "Bearer " THEN ""
    ELSE IF authHeader = "Bearer " \o UnknownKey THEN UnknownKey
    ELSE KnownKey
\* a value JavaScript's || passes over
falsy(v) == v = NoValue \/ v = ""
\* const apiKey = authHeader?.replace(...) || req.query.key || req.header('x-goog-api-key')
apiKeyOf(req) ==
    IF ~falsy(withoutBearer(req.authorization)) THEN withoutBearer(req.authorization)
    ELSE IF ~falsy(req.queryKey) THEN req.queryKey
    ELSE req.googApiKey

\* validateApiKey: is the key's hash among the stored keys
validateApiKeyAny(key) == TRUE
validateApiKey(key) == key = KnownKey

Calls == [authorization : AuthorizationHeaders, queryKey : KeyValues, googApiKey : KeyValues,
          action : Actions,
          configured : BOOLEAN,    \* isConfigured()
          overLimit : BOOLEAN,     \* the address made more than max calls this minute
          dbFails : BOOLEAN]       \* validateApiKey rejects

AuthRest ==
    /\ call = [authorization |-> NoValue, queryKey |-> NoValue, googApiKey |-> NoValue,
               action |-> "generateContent", configured |-> TRUE, overLimit |-> FALSE,
               dbFails |-> FALSE]
    /\ apc = "answered"
    /\ astatus = 401
    /\ aengine = FALSE

\* a call arrives
AuthStart ==
    /\ call \in Calls
    /\ apc = "setup"
    /\ astatus = 0
    /\ aengine = FALSE

answer(status) ==
    /\ apc' = "answered"
    /\ astatus' = status

\* the setup middleware: redirect to /setup while the system is not configured
SetupMiddleware ==
    /\ apc = "setup"
    /\ IF ~call.configured THEN answer(302)
       ELSE apc' = "limiter" /\ UNCHANGED astatus
    /\ UNCHANGED <<call, aengine>>
    /\ UNCHANGED <<gateVars, tokVars, engVars, regVars, scnVars, tailButAuth>>

\* apiLimiter
ApiLimiter ==
    /\ apc = "limiter"
    /\ IF call.overLimit THEN answer(429)
       ELSE apc' = "apikey" /\ UNCHANGED astatus
    /\ UNCHANGED <<call, aengine>>
    /\ UNCHANGED <<gateVars, tokVars, engVars, regVars, scnVars, tailButAuth>>

\* requireApiKey up to its await
RequireApiKey ==
    /\ apc = "apikey"
    /\ IF falsy(apiKeyOf(call)) THEN answer(401)
       ELSE apc' = "validating" /\ UNCHANGED astatus
    /\ UNCHANGED <<call, aengine>>
    /\ UNCHANGED <<gateVars, tokVars, engVars, regVars, scnVars, tailButAuth>>

\* validateApiKey settles
ValidateApiKeySettles ==
    /\ apc = "validating"
    /\ IF call.dbFails THEN answer(500)
       ELSE IF ~validateApiKey(apiKeyOf(call)) THEN answer(401)
       ELSE apc' = "route" /\ UNCHANGED astatus
    /\ UNCHANGED <<call, aengine>>
    /\ UNCHANGED <<gateVars, tokVars, engVars, regVars, scnVars, tailButAuth>>

\* the route handler: handleGenerateContent for the two generate actions
RouteHandler ==
    /\ apc = "route"
    /\ IF call.action \in {"generateContent", "streamGenerateContent"}
       THEN apc' = "engine" /\ aengine' = TRUE /\ UNCHANGED astatus
       ELSE answer(404) /\ UNCHANGED aengine
    /\ UNCHANGED call
    /\ UNCHANGED <<gateVars, tokVars, engVars, regVars, scnVars, tailButAuth>>

AuthStep ==
    \/ SetupMiddleware
    \/ ApiLimiter
    \/ RequireApiKey
    \/ ValidateApiKeySettles
    \/ RouteHandler

(***************************************************************************)
(* Part 12.  The persisted accounts under reactivateExhaustedAccounts, in  *)
(* the sqlite and the local JSON backend, on the clock of Part 4.          *)
(***************************************************************************)
MaxDbTicks == 9
MinuteMs == 60000
\* index.ts EXHAUSTION_COOLDOWN_MS = 60 * 60 * 1000
EXHAUSTION_COOLDOWN_MS == 60 * MinuteMs
\* the clock moves in steps of ten minutes
DbTickMs == 10 * MinuteMs
Backends == {"sqlite", "local"}
\* the cooldowns reactivateExhaustedAccounts is called with
CooldownArgs == {EXHAUSTION_COOLDOWN_MS, 30 * MinuteMs}
\* a stored account: isActive, and exhaustedAt in ms, Undefined = NULL / null
StoredRows == [isActive : BOOLEAN,
               exhaustedAt : {Undefined, StartNow}]

\* sqlite.ts: WHERE isActive = 0 AND exhaustedAt IS NOT NULL AND exhaustedAt < @threshold
matchesWhereOrAt(row, threshold) ==
    ~row.isActive /\ row.exhaustedAt # Undefined /\ row.exhaustedAt <= threshold
matchesWhere(row, threshold) ==
    ~row.isActive /\ row.exhaustedAt # Undefined /\ row.exhaustedAt < threshold

\* sqlite.ts reactivateExhaustedAccounts at Date.now() = t: the rows after the
\* UPDATE and result.changes
reactivateSqlite(rows, cooldownMs, t) ==
    LET threshold == t - cooldownMs
    IN  [rows |-> [e \in Emails |->
                     IF matchesWhere(rows[e], threshold)
                     THEN [isActive |-> TRUE, exhaustedAt |-> Undefined]
                     ELSE rows[e]],
         changes |-> Cardinality({e \in Emails : matchesWhere(rows[e], threshold)})]

\* localDb.ts reactivateExhaustedAccounts at Date.now() = t: the loop over
\* Object.keys(db.accounts)
reactivateLocal(rows, cooldownMs, t) ==
    LET flips(acc) ==
            IF acc.isActive \/ acc.exhaustedAt = Undefined THEN FALSE
            ELSE t - acc.exhaustedAt > cooldownMs
    IN  [rows |-> [e \in Emails |->
                     IF flips(rows[e])
                     THEN [isActive |-> TRUE, exhaustedAt |-> Undefined]
                     ELSE rows[e]],
         changes |-> Cardinality({e \in Emails : flips(rows[e])})]

NoReactivation == [done |-> FALSE, count |-> 0, before |-> <<>>, after |-> <<>>,
                   at |-> 0, cooldownMs |-> 0]

DbRest ==
    /\ backend = "sqlite"
    /\ stored = [e \in Emails |-> [isActive |-> TRUE, exhaustedAt |-> Undefined]]
    /\ lastReactivation = NoReactivation

\* the accounts as upsertAccount stored them
DbStart ==
    /\ backend \in Backends
    /\ stored \in [Emails -> StoredRows]
    /\ lastReactivation = NoReactivation

\* time passes
DbTick ==
    /\ now + DbTickMs <= StartNow + MaxDbTicks * DbTickMs
    /\ now' = now + DbTickMs
    /\ UNCHANGED <<cooldown, inUse, prevProbeAt, probeGap, streak, authMarked, forgot>>
    /\ UNCHANGED dbVars
    /\ UNCHANGED <<gateVars, tokVars, engVars, scnVars, tailButDb>>

\* the legacy rotation's updateAccount(email, {isActive: false, exhaustedAt: new Date()})
UpdateAccountExhausted(e) ==
    /\ stored[e].isActive
    /\ stored' = [stored EXCEPT ![e] = [isActive |-> FALSE, exhaustedAt |-> now]]
    /\ UNCHANGED <<backend, lastReactivation>>
    /\ UNCHANGED <<gateVars, tokVars, engVars, regVars, scnVars, tailButDb>>

\* reactivateExhaustedAccounts(cooldownMs)
ReactivateExhaustedAccounts ==
    /\ \E cooldownMs \in CooldownArgs :
         LET r == IF backend = "sqlite" THEN reactivateSqlite(stored, cooldownMs, now)
                  ELSE reactivateLocal(stored, cooldownMs, now)
         IN  /\ stored' = r.rows
             /\ lastReactivation' = [done |-> TRUE, count |-> r.changes, before |-> stored,
                                     after |-> r.rows, at |-> now, cooldownMs |-> cooldownMs]
    /\ UNCHANGED backend
    /\ UNCHANGED <<gateVars, tokVars, engVars, regVars, scnVars, tailButDb>>

DbStep ==
    \/ DbTick
    \/ \E e \in Emails : UpdateAccountExhausted(e)
    \/ ReactivateExhaustedAccounts

(***************************************************************************)
(* Part 13.  incrementAccountStats on one identity, called by several      *)
(* rotation iterations at once, in the sqlite and the local JSON backend.  *)
(* The body of the function has no await: a call runs to its end before    *)
(* any other call starts.                                                  *)
(***************************************************************************)
NumStatCallers == 3
StatCallers == 1..NumStatCallers
\* the stats the rotation and the sqlite test hand over
StatsArgs == {[successful |-> 1, failed |-> 0, tokens |-> 0],
              [successful |-> 1, failed |-> 0, tokens |-> 150],
              [successful |-> 0, failed |-> 1, tokens |-> 0],
              [successful |-> 2, failed |-> 1, tokens |-> 300]}
\* a counter of db.json that was never written reads as 0: (acc.x || 0)
orZero(x) == IF x = Undefined THEN 0 ELSE x
\* column = column + @value
addToColumnSet(old, value) == value
addToColumn(old, value) == old + value

\* sqlite.ts incrementAccountStats: one UPDATE
incrementSqlite(row, stats) ==
    [totalRequests |-> addToColumn(row.totalRequests, stats.successful + stats.failed),
     successfulRequests |-> addToColumn(row.successfulRequests, stats.successful),
     failedRequests |-> addToColumn(row.failedRequests, stats.failed),
     totalTokensUsed |-> addToColumn(row.totalTokensUsed, stats.tokens)]

\* localDb.ts incrementAccountStats: read-modify-write on the cached object
incrementLocal(acc, stats) ==
    [totalRequests |-> orZero(acc.totalRequests) + stats.successful + stats.failed,
     successfulRequests |-> IF stats.successful > 0
                            THEN orZero(acc.successfulRequests) + stats.successful
                            ELSE acc.successfulRequests,
     failedRequests |-> IF stats.failed > 0
                        THEN orZero(acc.failedRequests) + stats.failed
                        ELSE acc.failedRequests,
     totalTokensUsed |-> IF stats.tokens > 0
                         THEN orZero(acc.totalTokensUsed) + stats.tokens
                         ELSE acc.totalTokensUsed]

ZeroCounters == [totalRequests |-> 0, successfulRequests |-> 0, failedRequests |-> 0,
                 totalTokensUsed |-> 0]
\* a db.json account written by a version without the counters
NoCounters == [totalRequests |-> Undefined, successfulRequests |-> Undefined,
               failedRequests |-> Undefined, totalTokensUsed |-> Undefined]
SomeCounters == [totalRequests |-> 4, successfulRequests |-> 3, failedRequests |-> 1,
                 totalTokensUsed |-> 450]
IdleStatCaller == [pc |-> "idle", stats |-> [successful |-> 0, failed |-> 0, tokens |-> 0]]

StatsRest ==
    /\ sbackend = "sqlite"
    /\ sinitial = ZeroCounters
    /\ scounters = ZeroCounters
    /\ scall = [c \in StatCallers |-> IdleStatCaller]

StatsStart ==
    /\ sbackend \in Backends
    /\ sinitial \in (IF sbackend = "sqlite" THEN {ZeroCounters, SomeCounters}
                     ELSE {ZeroCounters, SomeCounters, NoCounters})
    /\ scounters = sinitial
    /\ scall = [c \in StatCallers |-> IdleStatCaller]

\* await db.incrementAccountStats(email, stats): the call, up to the await
IncrementAccountStats(c) ==
    /\ scall[c].pc = "idle"
    /\ \E stats \in StatsArgs :
         /\ scounters' = IF sbackend = "sqlite" THEN incrementSqlite(scounters, stats)
                         ELSE incrementLocal(scounters, stats)
         /\ scall' = [scall EXCEPT ![c] = [pc |-> "awaiting", stats |-> stats]]
    /\ UNCHANGED <<sbackend, sinitial>>
    /\ UNCHANGED <<gateVars, tokVars, engVars, regVars, scnVars, tailButStats>>

\* the caller's continuation after the await
StatsResume(c) ==
    /\ scall[c].pc = "awaiting"
    /\ scall' = [scall EXCEPT ![c].pc = "done"]
    /\ UNCHANGED <<sbackend, sinitial, scounters>>
    /\ UNCHANGED <<gateVars, tokVars, engVars, regVars, scnVars, tailButStats>>

StatsStep ==
    \E c \in StatCallers :
        \/ IncrementAccountStats(c)
        \/ StatsResume(c)

(***************************************************************************)
(* Part 14.  The iterations of concurrent requests on one identity, from   *)
(* the cooldown check at the loop head to the outcome of the upstream      *)
(* call, with the awaits between them: stagger sleep, ensureFreshToken,    *)
(* geminiRequestSemaphore.run.                                             *)
(***************************************************************************)
NumHolders == 2
MaxHoldTicks == 4
Holders == 1..NumHolders
\* what the rotation marks the identity with after a call
HoldMarkCats == {"rate_limit", "quota", "timeout"}
IdleHolder == [pc |-> "idle", probe |-> FALSE]

HoldRest ==
    /\ hnow = StartNow
    /\ hentry = NoState
    /\ hold = [c \in Holders |-> IdleHolder]

\* time passes
HoldTick ==
    /\ hnow + TickMs <= StartNow + MaxHoldTicks * TickMs
    /\ hnow' = hnow + TickMs
    /\ UNCHANGED <<hentry, hold>>
    /\ UNCHANGED <<gateVars, tokVars, engVars, regVars, scnVars, tailButHold>>

\* the loop head reaches the identity: cooldown check with the probe, then
\* the rate budget; first: i = 0, so the iteration does not sleep
HoldCheck(c) ==
    /\ hold[c].pc = "idle"
    /\ \E allowed \in BOOLEAN, first \in BOOLEAN :
        LET inCooldown == isAccountInCooldownAt(hentry, hnow)
            c1 == afterCooldownCheckAt(hentry, hnow)
            probe == inCooldown /\ shouldProbeAccountAt(c1, hnow)
            staysOut == inCooldown /\ ~probe
        IN  /\ hentry' = IF probe THEN recordProbeAt(c1, hnow) ELSE c1
            /\ hold' = IF staysOut \/ ~allowed THEN hold
                       ELSE [hold EXCEPT ![c] = [pc |-> IF first THEN "token" ELSE "stagger",
                                                 probe |-> probe]]
            /\ (staysOut \/ ~allowed) => (first /\ (staysOut => allowed) /\ hentry' # hentry)
    /\ UNCHANGED hnow
    /\ UNCHANGED <<gateVars, tokVars, engVars, regVars, scnVars, tailButHold>>

\* the stagger sleep is over: ensureFreshToken is called
HoldStaggerOver(c) ==
    /\ hold[c].pc = "stagger"
    /\ hold' = [hold EXCEPT ![c].pc = "token"]
    /\ UNCHANGED <<hnow, hentry>>
    /\ UNCHANGED <<gateVars, tokVars, engVars, regVars, scnVars, tailButHold>>

\* ensureFreshToken resolved: geminiRequestSemaphore.run is called
HoldTokenResolved(c) ==
    /\ hold[c].pc = "token"
    /\ hold' = [hold EXCEPT ![c].pc = "gate"]
    /\ UNCHANGED <<hnow, hentry>>
    /\ UNCHANGED <<gateVars, tokVars, engVars, regVars, scnVars, tailButHold>>

\* the gate runs the function: nativeFetch issues the upstream call
HoldCallStarts(c) ==
    /\ hold[c].pc = "gate"
    /\ hold' = [hold EXCEPT ![c].pc = "calling"]
    /\ UNCHANGED <<hnow, hentry>>
    /\ UNCHANGED <<gateVars, tokVars, engVars, regVars, scnVars, tailButHold>>

\* the upstream answers with text: markAccountSuccess
HoldSuccess(c) ==
    /\ hold[c].pc = "calling"
    /\ hentry' = markAccountSuccessOf(hentry)
    /\ hold' = [hold EXCEPT ![c] = IdleHolder]
    /\ UNCHANGED hnow
    /\ UNCHANGED <<gateVars, tokVars, engVars, regVars, scnVars, tailButHold>>

\* the upstream answers 429 or the call throws: markAccountCooldown
HoldFail(c) ==
    /\ hold[c].pc = "calling"
    /\ hentry.failureCount < MaxMarks
    /\ \E category \in HoldMarkCats : hentry' = markAccountCooldownAt(hentry, category, hnow)
    /\ hold' = [hold EXCEPT ![c] = IdleHolder]
    /\ UNCHANGED hnow
    /\ UNCHANGED <<gateVars, tokVars, engVars, regVars, scnVars, tailButHold>>

HoldStep ==
    \/ HoldTick
    \/ \E c \in Holders :
        \/ HoldCheck(c)
        \/ HoldStaggerOver(c)
        \/ HoldTokenResolved(c)
        \/ HoldCallStarts(c)
        \/ HoldSuccess(c)
        \/ HoldFail(c)

(***************************************************************************)
(* Part 15.  One public streaming request from handleGenerateContent       *)
(* through handleStreamGenerateContent and streamWithAccounts, with every  *)
(* await that can reject: ensureFreshToken, nativeFetchStream and          *)
(* db.incrementAccountStats.                                               *)
(***************************************************************************)
NumStmAccounts == 2
\* the answers of nativeFetchStream: it throws, or a status with a stream
FetchOutcomes == {"throws", "s200", "s429", "s500"}

StmRest ==
    stm = [pc |-> "idle", attempt |-> 0, idx |-> 0, n |-> 0, res |-> NewRes]

\* handleGenerateContent: the payload check, then handleStreamGenerateContent
\* calls streamWithAccounts and returns without awaiting it
StmBegin ==
    /\ stm.pc = "idle"
    /\ \E validContents \in BOOLEAN :
        stm' = IF validContents THEN [stm EXCEPT !.pc = "select"]
               ELSE [stm EXCEPT !.pc = "returned", !.res = resJson(@, 400, "invalid400")]
    /\ UNCHANGED <<gateVars, tokVars, engVars, regVars, scnVars, tailButStm>>

\* top of a round: the loop test, else await selectReadyAccounts()
StmSelect ==
    /\ stm.pc = "select"
    /\ IF ~moreRounds(stm.attempt)
       THEN stm' = [stm EXCEPT !.pc = "returned", !.res = giveUp("stream", @)]
       ELSE \E n \in 0..NumStmAccounts :
              stm' = IF n = 0
                     THEN [stm EXCEPT !.pc = "returned", !.res = giveUp("stream", @)]
                     ELSE [stm EXCEPT !.pc = "iter", !.idx = 0, !.n = n]
    /\ UNCHANGED <<gateVars, tokVars, engVars, regVars, scnVars, tailButStm>>

\* the head of the inner loop: the end of the round, or the cooldown check
\* of the next identity and the stagger sleep
StmIterate ==
    /\ stm.pc = "iter"
    /\ IF stm.idx >= stm.n
       THEN stm' = IF stm.attempt < MAX_ATTEMPTS - 1 THEN [stm EXCEPT !.pc = "backoff"]
                   ELSE [stm EXCEPT !.pc = "select", !.attempt = @ + 1]
       ELSE \E inCooldownNoProbe \in BOOLEAN :
              stm' = IF inCooldownNoProbe THEN [stm EXCEPT !.idx = @ + 1]
                     ELSE [stm EXCEPT !.pc = "token"]
    /\ UNCHANGED <<gateVars, tokVars, engVars, regVars, scnVars, tailButStm>>

\* the backoff sleep is over
StmBackoff ==
    /\ stm.pc = "backoff"
    /\ stm' = [stm EXCEPT !.pc = "select", !.attempt = @ + 1]
    /\ UNCHANGED <<gateVars, tokVars, engVars, regVars, scnVars, tailButStm>>

\* await ensureFreshToken(account) settles
StmToken ==
    /\ stm.pc = "token"
    /\ \E resolves \in BOOLEAN :
        stm' = [stm EXCEPT !.pc = IF resolves THEN "call" ELSE "outerCatch"]
    /\ UNCHANGED <<gateVars, tokVars, engVars, regVars, scnVars, tailButStm>>

\* the success branch up to pipeStream: writeHead unless the headers are out
toPipe(q) ==
    [q EXCEPT !.pc = "pipe", !.res = IF ~q.res.headersSent THEN resWriteHead(@) ELSE @]

\* await nativeFetchStream with the requested model settles
StmCall ==
    /\ stm.pc = "call"
    /\ \E o \in FetchOutcomes, hasFallback \in BOOLEAN :
        /\ (o # "s429") => hasFallback
        /\ stm' = CASE o = "throws" -> [stm EXCEPT !.pc = "outerCatch"]
                    [] o = "s200" -> toPipe(stm)
                    [] o = "s429" -> [stm EXCEPT !.pc = IF hasFallback THEN "fbcall" ELSE "stats"]
                    [] OTHER -> [stm EXCEPT !.pc = "stats"]
    /\ UNCHANGED <<gateVars, tokVars, engVars, regVars, scnVars, tailButStm>>

\* await nativeFetchStream with the fallback model settles
StmFallback ==
    /\ stm.pc = "fbcall"
    /\ \E o \in FetchOutcomes :
        stm' = CASE o = "throws" -> [stm EXCEPT !.pc = "outerCatch"]
                 [] o = "s200" -> toPipe(stm)
                 [] OTHER -> [stm EXCEPT !.pc = "stats"]
    /\ UNCHANGED <<gateVars, tokVars, engVars, regVars, scnVars, tailButStm>>

\* the 429 and the non-2xx branch: await db.incrementAccountStats, continue
StmStats ==
    /\ stm.pc = "stats"
    /\ \E throws \in BOOLEAN :
        stm' = IF throws THEN [stm EXCEPT !.pc = "outerCatch"]
               ELSE [stm EXCEPT !.pc = "iter", !.idx = @ + 1]
    /\ UNCHANGED <<gateVars, tokVars, engVars, regVars, scnVars, tailButStm>>

\* pipeStream: the upstream stream ends, or fails
StmPipeSettles ==
    /\ stm.pc = "pipe"
    /\ \E ends \in BOOLEAN :
        stm' = IF ends THEN [stm EXCEPT !.pc = "statsOk", !.res = resEnd(resWrite(@, DoneFrame))]
               ELSE [stm EXCEPT !.pc = "innerCatch", !.res = endIfOpen(@)]
    /\ UNCHANGED <<gateVars, tokVars, engVars, regVars, scnVars, tailButStm>>

\* after pipeStream resolved: markAccountSuccess, await db.incrementAccountStats
StmStatsOk ==
    /\ stm.pc = "statsOk"
    /\ \E throws \in BOOLEAN :
        stm' = [stm EXCEPT !.pc = IF throws THEN "innerCatch" ELSE "returned"]
    /\ UNCHANGED <<gateVars, tokVars, engVars, regVars, scnVars, tailButStm>>

\* catch (streamErr): markAccountCooldown, await db.incrementAccountStats,
\* then the committed response is ended
StmInnerCatch ==
    /\ stm.pc = "innerCatch"
    /\ \E throws \in BOOLEAN :
        stm' = IF throws THEN [stm EXCEPT !.pc = "outerCatch"]
               ELSE IF committed(stm.res)
               THEN [stm EXCEPT !.pc = "returned", !.res = endIfOpen(@)]
               ELSE [stm EXCEPT !.pc = "iter", !.idx = @ + 1]
    /\ UNCHANGED <<gateVars, tokVars, engVars, regVars, scnVars, tailButStm>>

\* catch (e): markAccountCooldown, await db.incrementAccountStats; a throw
\* here rejects the promise of streamWithAccounts, which nobody holds
StmOuterCatch ==
    /\ stm.pc = "outerCatch"
    /\ \E throws \in BOOLEAN :
        stm' = IF throws THEN [stm EXCEPT !.pc = "rejected"]
               ELSE [stm EXCEPT !.pc = "iter", !.idx = @ + 1]
    /\ UNCHANGED <<gateVars, tokVars, engVars, regVars, scnVars, tailButStm>>

StmStep ==
    \/ StmBegin
    \/ StmSelect
    \/ StmIterate
    \/ StmBackoff
    \/ StmToken
    \/ StmCall
    \/ StmFallback
    \/ StmStats
    \/ StmPipeSettles
    \/ StmStatsOk
    \/ StmInnerCatch
    \/ StmOuterCatch

(***************************************************************************)
(* Part 16.  The exported calls of account-manager.ts on the account       *)
(* cache: getReadyAccounts, warmAccountCache and invalidateAccountCache,   *)
(* with every refreshCache run that is under way, whether or not           *)
(* cacheRefreshPromise still points at it.                                 *)
(***************************************************************************)
NumInvCallers == 2
MaxSeq == 4
InvCallers == 1..NumInvCallers
\* the events that are ordered: starts of a load and invalidations
Seqs == 1..MaxSeq
\* how many active accounts persistence holds when a load reads it
ActiveCounts == {0, 1}
\* the [] that the module starts with and that invalidateAccountCache assigns
EmptyList == [loadedAt |-> 0, length |-> 0]
NoLoad == [phase |-> "none", length |-> 0]
IdleInvCaller == [pc |-> "idle", kind |-> "none", on |-> 0, afterInv |-> 0, list |-> EmptyList]

InvRest ==
    /\ icache = [list |-> EmptyList, updated |-> "never"]
    /\ ipromise = 0
    /\ iload = [s \in Seqs |-> NoLoad]
    /\ iseq = 0
    /\ iinv = [at |-> 0, pending |-> FALSE]
    /\ icall = [c \in InvCallers |-> IdleInvCaller]

\* refreshCache(): the promise the caller gets; a new load starts, and reads
\* persistence, unless cacheRefreshPromise is set
refreshCachePromise(promise, seq) == IF promise # 0 THEN promise ELSE seq + 1
startsLoad(promise) == promise = 0
loadsAfterRefreshCache(loads, promise, seq, length) ==
    IF startsLoad(promise)
    THEN [loads EXCEPT ![seq + 1] = [phase |-> "loading", length |-> length]]
    ELSE loads
seqAfterRefreshCache(promise, seq) == IF startsLoad(promise) THEN seq + 1 ELSE seq

\* getReadyAccounts(): the cold start awaits refreshCache(), otherwise the
\* cached list is returned, with triggerBackgroundRefresh() if it is stale
InvGetReadyAccounts(c) ==
    /\ icall[c].pc = "idle"
    /\ LET cold == icache.list.length = 0 /\ icache.updated = "never"
           refreshes == cold \/ icache.updated = "stale"
           afterInv == IF iinv.pending THEN iinv.at ELSE 0
       IN  /\ (refreshes /\ startsLoad(ipromise)) => iseq < MaxSeq
           /\ \E length \in ActiveCounts :
                /\ iload' = IF refreshes
                            THEN loadsAfterRefreshCache(iload, ipromise, iseq, length)
                            ELSE iload
                /\ (refreshes /\ startsLoad(ipromise)) \/ length = 0
           /\ ipromise' = IF refreshes THEN refreshCachePromise(ipromise, iseq) ELSE ipromise
           /\ iseq' = IF refreshes THEN seqAfterRefreshCache(ipromise, iseq) ELSE iseq
           /\ icall' = [icall EXCEPT ![c] =
                          IF cold
                          THEN [pc |-> "await", kind |-> "get", on |-> ipromise',
                                afterInv |-> afterInv, list |-> EmptyList]
                          ELSE [pc |-> "returned", kind |-> "get", on |-> 0,
                                afterInv |-> afterInv, list |-> icache.list]]
    /\ iinv' = [iinv EXCEPT !.pending = FALSE]
    /\ UNCHANGED icache
    /\ UNCHANGED <<gateVars, tokVars, engVars, regVars, scnVars, tailButInv>>

\* warmAccountCache(): await refreshCache()
WarmAccountCache(c) ==
    /\ icall[c].pc = "idle"
    /\ startsLoad(ipromise) => iseq < MaxSeq
    /\ \E length \in ActiveCounts :
         /\ iload' = loadsAfterRefreshCache(iload, ipromise, iseq, length)
         /\ startsLoad(ipromise) \/ length = 0
    /\ ipromise' = refreshCachePromise(ipromise, iseq)
    /\ iseq' = seqAfterRefreshCache(ipromise, iseq)
    /\ icall' = [icall EXCEPT ![c] = [pc |-> "await", kind |-> "warm", on |-> ipromise',
                                      afterInv |-> 0, list |-> EmptyList]]
    /\ UNCHANGED <<icache, iinv>>
    /\ UNCHANGED <<gateVars, tokVars, engVars, regVars, scnVars, tailButInv>>

\* invalidateAccountCache()
InvalidateAccountCache ==
    /\ iseq < MaxSeq
    /\ icache' = [list |-> EmptyList, updated |-> "never"]
    /\ ipromise' = 0
    /\ iseq' = iseq + 1
    /\ iinv' = [at |-> iseq + 1, pending |-> TRUE]
    /\ UNCHANGED <<iload, icall>>
    /\ UNCHANGED <<gateVars, tokVars, engVars, regVars, scnVars, tailButInv>>

\* the callers awaiting the promise of the load go on: getReadyAccounts
\* returns cachedAccounts as it is now
resumeAwaiting(calls, s, list) ==
    [c \in InvCallers |->
        IF calls[c].pc = "await" /\ calls[c].on = s
        THEN [calls[c] EXCEPT !.pc = "returned",
                              !.list = IF calls[c].kind = "get" THEN list ELSE EmptyList]
        ELSE calls[c]]

\* db.getActiveAccounts() of a load resolves: the list and its time are
\* stored; finally cacheRefreshPromise = null
LoadResolves(s) ==
    /\ iload[s].phase = "loading"
    /\ iload' = [iload EXCEPT ![s].phase = "done"]
    /\ icache' = [list |-> [loadedAt |-> s, length |-> iload[s].length], updated |-> "fresh"]
    /\ ipromise' = 0
    /\ icall' = resumeAwaiting(icall, s, icache'.list)
    /\ UNCHANGED <<iseq, iinv>>
    /\ UNCHANGED <<gateVars, tokVars, engVars, regVars, scnVars, tailButInv>>

\* db.getActiveAccounts() of a load rejects: the cache is kept as it is;
\* finally cacheRefreshPromise = null
LoadRejects(s) ==
    /\ iload[s].phase = "loading"
    /\ iload' = [iload EXCEPT ![s].phase = "failed"]
    /\ ipromise' = 0
    /\ icall' = resumeAwaiting(icall, s, icache.list)
    /\ UNCHANGED <<icache, iseq, iinv>>
    /\ UNCHANGED <<gateVars, tokVars, engVars, regVars, scnVars, tailButInv>>

\* more than CACHE_TTL_MS pass since cacheUpdatedAt
TtlPasses ==
    /\ icache.updated = "fresh"
    /\ icache' = [icache EXCEPT !.updated = "stale"]
    /\ UNCHANGED <<ipromise, iload, iseq, iinv, icall>>
    /\ UNCHANGED <<gateVars, tokVars, engVars, regVars, scnVars, tailButInv>>

\* the caller has its result and may call again
InvCallOver(c) ==
    /\ icall[c].pc = "returned"
    /\ icall' = [icall EXCEPT ![c] = IdleInvCaller]
    /\ UNCHANGED <<icache, ipromise, iload, iseq, iinv>>
    /\ UNCHANGED <<gateVars, tokVars, engVars, regVars, scnVars, tailButInv>>

InvStep ==
    \/ InvalidateAccountCache
    \/ TtlPasses
    \/ \E s \in Seqs : LoadResolves(s) \/ LoadRejects(s)
    \/ \E c \in InvCallers :
        \/ InvGetReadyAccounts(c)
        \/ WarmAccountCache(c)
        \/ InvCallOver(c)

(***************************************************************************)
(* Specifications: each part runs with the other parts at rest.            *)
(***************************************************************************)
InitGate == GateStart /\ TokStart /\ EngRest /\ RegStart /\ S2Rest /\ CacheRest /\ LimRest /\ PipeRest /\ BkRest /\ ClsRest /\ AuthRest /\ DbRest /\ StatsRest /\ HoldRest /\ StmRest /\ InvRest
SpecGate == InitGate /\ [][GateStep]_vars
\* the event loop runs every continuation that is ready, and every function
\* handed to run() settles
FairGate ==
    \A c \in Callers :
        /\ WF_vars(GateStartFn(c))
        /\ WF_vars(GateFnSettle(c))
        /\ WF_vars(GateRelease(c))
\* the callers that go through run() only
RunStep ==
    \E c \in Callers :
        \/ GateAcquire(c)
        \/ GateStartFn(c)
        \/ GateFnSettle(c)
        \/ GateRelease(c)
        \/ GateFallbackSettle(c)
FairSpecGate == InitGate /\ [][RunStep]_vars /\ FairGate
InitToken == GateStart /\ TokStart /\ EngRest /\ RegStart /\ S2Rest /\ CacheRest /\ LimRest /\ PipeRest /\ BkRest /\ ClsRest /\ AuthRest /\ DbRest /\ StatsRest /\ HoldRest /\ StmRest /\ InvRest
SpecToken == InitToken /\ [][TokStep]_vars
Init == GateStart /\ TokStart /\ EngStart /\ RegStart /\ S2Rest /\ CacheRest /\ LimRest /\ PipeRest /\ BkRest /\ ClsRest /\ AuthRest /\ DbRest /\ StatsRest /\ HoldRest /\ StmRest /\ InvRest
Next == EngStep
Spec == Init /\ [][Next]_vars
InitCooldown == GateStart /\ TokStart /\ EngRest /\ RegStart /\ S2Rest /\ CacheRest /\ LimRest /\ PipeRest /\ BkRest /\ ClsRest /\ AuthRest /\ DbRest /\ StatsRest /\ HoldRest /\ StmRest /\ InvRest
SpecCooldown == InitCooldown /\ [][RegStep]_vars
InitS2 == GateStart /\ TokStart /\ EngRest /\ RegStart /\ S2Rest /\ CacheRest /\ LimRest /\ PipeRest /\ BkRest /\ ClsRest /\ AuthRest /\ DbRest /\ StatsRest /\ HoldRest /\ StmRest /\ InvRest
SpecS2 == InitS2 /\ [][S2Step]_vars
InitCache == GateStart /\ TokStart /\ EngRest /\ RegStart /\ S2Rest /\ CacheStart /\ LimRest /\ PipeRest /\ BkRest /\ ClsRest /\ AuthRest /\ DbRest /\ StatsRest /\ HoldRest /\ StmRest /\ InvRest
SpecCache == InitCache /\ [][CacheStep]_vars
InitLimiter == GateStart /\ TokStart /\ EngRest /\ RegStart /\ S2Rest /\ CacheRest /\ LimRest /\ PipeRest /\ BkRest /\ ClsRest /\ AuthRest /\ DbRest /\ StatsRest /\ HoldRest /\ StmRest /\ InvRest
SpecLimiter == InitLimiter /\ [][LimStep]_vars
InitPipe == GateStart /\ TokStart /\ EngRest /\ RegStart /\ S2Rest /\ CacheRest /\ LimRest /\ PipeStart /\ BkRest /\ ClsRest /\ AuthRest /\ DbRest /\ StatsRest /\ HoldRest /\ StmRest /\ InvRest
SpecPipe == InitPipe /\ [][PipeStep]_vars
InitBk == GateStart /\ TokStart /\ EngRest /\ RegStart /\ S2Rest /\ CacheRest /\ LimRest /\ PipeRest /\ BkRest /\ ClsRest /\ AuthRest /\ DbRest /\ StatsRest /\ HoldRest /\ StmRest /\ InvRest
SpecBk == InitBk /\ [][BkStep]_vars
InitCls == GateStart /\ TokStart /\ EngRest /\ RegStart /\ S2Rest /\ CacheRest /\ LimRest /\ PipeRest /\ BkRest /\ ClsStart /\ AuthRest /\ DbRest /\ StatsRest /\ HoldRest /\ StmRest /\ InvRest
SpecCls == InitCls /\ [][ClsStep]_vars
InitAuth == GateStart /\ TokStart /\ EngRest /\ RegStart /\ S2Rest /\ CacheRest /\ LimRest /\ PipeRest /\ BkRest /\ ClsRest /\ AuthStart /\ DbRest /\ StatsRest /\ HoldRest /\ StmRest /\ InvRest
SpecAuth == InitAuth /\ [][AuthStep]_vars
InitDb == GateStart /\ TokStart /\ EngRest /\ RegStart /\ S2Rest /\ CacheRest /\ LimRest /\ PipeRest /\ BkRest /\ ClsRest /\ AuthRest /\ DbStart /\ StatsRest /\ HoldRest /\ StmRest /\ InvRest
SpecDb == InitDb /\ [][DbStep]_vars
InitStats == GateStart /\ TokStart /\ EngRest /\ RegStart /\ S2Rest /\ CacheRest /\ LimRest /\ PipeRest /\ BkRest /\ ClsRest /\ AuthRest /\ DbRest /\ StatsStart /\ HoldRest /\ StmRest /\ InvRest
SpecStats == InitStats /\ [][StatsStep]_vars
InitHold == GateStart /\ TokStart /\ EngRest /\ RegStart /\ S2Rest /\ CacheRest /\ LimRest /\ PipeRest /\ BkRest /\ ClsRest /\ AuthRest /\ DbRest /\ StatsRest /\ HoldRest /\ StmRest /\ InvRest
SpecHold == InitHold /\ [][HoldStep]_vars
InitStm == GateStart /\ TokStart /\ EngRest /\ RegStart /\ S2Rest /\ CacheRest /\ LimRest /\ PipeRest /\ BkRest /\ ClsRest /\ AuthRest /\ DbRest /\ StatsRest /\ HoldRest /\ StmRest /\ InvRest
SpecStm == InitStm /\ [][StmStep]_vars
InitInv == GateStart /\ TokStart /\ EngRest /\ RegStart /\ S2Rest /\ CacheRest /\ LimRest /\ PipeRest /\ BkRest /\ ClsRest /\ AuthRest /\ DbRest /\ StatsRest /\ HoldRest /\ StmRest /\ InvRest
SpecInv == InitInv /\ [][InvStep]_vars
\* the event loop runs every continuation that is ready; every await of the
\* request settles: timers fire, nativeFetchStream has a timeout
FairSpecStm == SpecStm /\ WF_vars(StmStep)

(***************************************************************************)
(* Claims                                                                  *)
(***************************************************************************)

\* functions passed to run() that are executing
Running == Cardinality({c \in Callers : gpc[c] = "running"})
\* upstream generation calls in flight, gated or not
InFlight == Cardinality({c \in Callers :
                gpc[c] \in {"running", "fallback", "stream", "streamFb"}})

\* C1: at every instant at most 3 upstream generation calls are in flight.
C1_InFlightAtMostCap == InFlight <= maxConcurrent

\* C2: at no instant are more than 3 of the functions given to run() running,
\* and the semaphore never counts more than 3 holders.
C2_RunningAtMostCap == Running <= maxConcurrent /\ Running <= active /\ active <= maxConcurrent
C2_Witness == Running = maxConcurrent /\ Len(queue) > 0

\* refresh HTTP calls in flight for an identity
RefreshHttpInFlight(e) ==
    Cardinality({p \in Pids : refresh[p].email = e /\ refresh[p].phase = "http"})

\* C3: for each identity at most one token-refresh HTTP call is in flight at
\* every instant, however many callers race ensureFreshToken on it.
C3_OneRefreshInFlight == \A e \in Emails : RefreshHttpInFlight(e) <= 1
C3_Witness ==
    \E e \in Emails : RefreshHttpInFlight(e) = 1 /\ Cardinality(Awaiting(e)) >= 2

\* C4: calls of ensureFreshToken for one identity with an expired token that
\* overlap are served by one refresh HTTP call (they await the same refresh
\* promise) and those that return all return the new token of that refresh.
C4_OverlapOneRefresh ==
    \A c \in TokCallers, d \in TokCallers :
        ({c, d} \in tover /\ c # d) =>
            /\ twait[c] = twait[d]
            /\ (tpc[c] = "returned" /\ tpc[d] = "returned") =>
                   (tret[c] = tret[d] /\ tret[c] = NewToken(twait[c]))
C4_Witness ==
    \E c \in TokCallers, d \in TokCallers, f \in TokCallers :
        /\ c # d /\ d # f /\ c # f
        /\ {c, d} \in tover /\ {d, f} \in tover /\ {c, f} \in tover
        /\ tpc[c] = "returned" /\ tpc[d] = "returned" /\ tpc[f] = "returned"
        /\ tret[c] > 0

\* positions of a request inside a round of the rotation
InRound == {"iter", "stagger", "token", "call", "fbcall", "scall", "sfbcall", "pipe", "backoff"}
\* the frames pipeStream forwards while the upstream stream is alive
Forwarded == {"frame", "raw"}

C6_NoFrameFailureFallsBack ==
    \A r \in Reqs :
        ~(rq[r].kind = "stream" /\ rq[r].result = "aborted" /\ res[r].body = <<>>)

\* C7: a streaming response that failed after its headers were written has
\* been ended exactly once and carries only frames forwarded before the
\* failure: no [DONE] frame, no error frame, no other body.
C7_CommittedFailureEndsOnce ==
    \A r \in Reqs :
        rq[r].failedAfterHeaders =>
            /\ res[r].ends = 1 /\ res[r].writableEnded
            /\ res[r].statusCode = 200
            /\ \A i \in 1..Len(res[r].body) : res[r].body[i] \in Forwarded
C7_Witness ==
    \E r \in Reqs :
        /\ rq[r].failedAfterHeaders /\ rq[r].kind = "admin"
        /\ res[r].body = <<"raw">> /\ res[r].ends = 1

C9_NoAccountsAlways503 ==
    \A r \in Reqs : rq[r].result = "noaccounts" => res[r].statusCode = 503

\* C9: with zero active identities a request never enters a round (no
\* upstream call, no backoff sleep, no further round) and is answered at
\* once: 503 if no response headers were written yet, the SSE error frame
\* and the end of the response if they were (admin chat).
C9_NoAccountsReturnsAtOnce ==
    \A r \in Reqs :
        /\ acctList = <<>> => (rq[r].pc \notin InRound /\ ~rq[r].called)
        /\ rq[r].result = "noaccounts" =>
              /\ rq[r].pc = "done" /\ rq[r].attempt = 0 /\ ~rq[r].called
              /\ res[r].ends = 1 /\ res[r].writableEnded
              /\ IF rq[r].kind = "admin"
                 THEN res[r].statusCode = 200 /\ res[r].body = <<"errframe">>
                 ELSE res[r].statusCode = 503 /\ res[r].body = <<"exhausted503">>
C9_Witness ==
    \E r \in Reqs :
        /\ rq[r].result = "noaccounts" /\ rq[r].kind = "unary"
        /\ res[r].statusCode = 503 /\ acctList = <<>>

\* the next model of the chain, spelled out: flash -> pro -> pro-3.1
ChainNext(m) ==
    IF m = DEFAULT_MODEL THEN FALLBACK_MODEL
    ELSE IF m = FALLBACK_MODEL THEN FALLBACK_MODEL_V2 ELSE NoModel

\* C10: a request fulfilled by the fallback call that followed a 429 on the
\* requested model is a success served by the identity that got the 429, on
\* the next model of the chain, answered with one 200 response (the payload
\* for a unary request, the piped stream closed by [DONE] for a streaming one).
C10_FallbackSuccess ==
    \A r \in Reqs :
        (rq[r].via = "fallback" /\ rq[r].pc = "done" /\ rq[r].result # "aborted") =>
            /\ rq[r].result = "success"
            /\ rq[r].servedBy = rq[r].accounts[rq[r].idx]
            /\ rq[r].servedModel = ChainNext(rq[r].model)
            /\ rq[r].servedModel \in Models
            /\ res[r].statusCode = 200 /\ res[r].ends = 1
            /\ IF rq[r].kind = "unary"
               THEN res[r].body = <<"payload">>
               ELSE res[r].body[Len(res[r].body)] = "[DONE]"
C10_Witness ==
    \E r \in Reqs :
        /\ rq[r].via = "fallback" /\ rq[r].result = "success" /\ rq[r].kind = "unary"
        /\ rq[r].model = DEFAULT_MODEL /\ rq[r].servedModel = FALLBACK_MODEL
        /\ rq[r].servedBy = "b" /\ res[r].body = <<"payload">>

\* C11: a 429 that is followed by the fallback call records nothing in the
\* cooldown registry, neither when the fallback call is sent nor when its
\* stream is taken, and a request fulfilled by the fallback call leaves the
\* identity that served it without a cooldown entry.
C11_FallbackSuccessNoCooldown ==
    [][\A r \in Reqs :
          /\ (rq[r].pc \in {"call", "scall"} /\ rq'[r].pc \in {"fbcall", "sfbcall"})
                => cooldownState' = cooldownState
          /\ (rq[r].pc = "sfbcall" /\ rq'[r].pc = "pipe")
                => cooldownState' = cooldownState
          /\ (rq[r].result # "success" /\ rq'[r].result = "success"
                                       /\ rq'[r].via = "fallback")
                => cooldownState'[rq'[r].servedBy] = NoEntry]_vars
C11_Witness ==
    \E r \in Reqs :
        /\ rq[r].result = "success" /\ rq[r].via = "fallback" /\ rq[r].kind = "stream"
        /\ rq[r].accounts = <<"a">> /\ rq[r].attempt >= 1
        /\ cooldownState["a"] = NoEntry

\* outcomes of an iteration whose primary call got 429 and whose fallback
\* call, if there was one, answered without success
Failed429 == {"s429", "fb_empty", "fb_notok"}

\* C12 as stated: whenever the call got 429 and the fallback did not succeed
\* (it answered without success, or it failed with an exception), the
\* identity just left behind is in a quota or rate_limit cooldown.
C12_FailedFallbackIs429Class ==
    \A r \in Reqs :
        (rq[r].pc = "iter" /\ rq[r].out \in Failed429 \cup {"fb_throw"}) =>
            /\ rq[r].stat = "failed"
            /\ cooldownState[rq[r].accounts[rq[r].idx - 1]].reason \in {"quota", "rate_limit"}

\* C12: when the call got 429 and there is no fallback model, or the fallback
\* call answered without success, the identity is put in a quota or
\* rate_limit cooldown (the class of the original 429), one failure is
\* recorded, and the rotation goes on with the next identity of the same
\* round, the other identities' cooldowns untouched; when the fallback call
\* fails with an exception the cooldown has the category of that exception.
C12_FailedFallbackCooldown ==
    [][\A r \in Reqs :
          (rq[r].pc \in {"call", "fbcall", "scall", "sfbcall"}
                /\ rq'[r].out \in Failed429 \cup {"fb_throw"}) =>
             LET email == rq[r].accounts[rq[r].idx]
                 reason == cooldownState'[email].reason
             IN  /\ rq'[r].pc = "iter" /\ rq'[r].idx = rq[r].idx + 1
                 /\ rq'[r].attempt = rq[r].attempt
                 /\ rq'[r].stat = "failed"
                 /\ \A e \in Emails \ {email} : cooldownState'[e] = cooldownState[e]
                 /\ IF rq'[r].out = "fb_throw"
                    THEN reason \in {"timeout", "unknown"}
                    ELSE /\ reason \in {"quota", "rate_limit"}
                         /\ rq[r].pc \in {"fbcall", "sfbcall"} => reason = rq[r].first429]_vars
C12_Witness ==
    \E r \in Reqs :
        /\ rq[r].pc = "iter" /\ rq[r].out = "fb_notok" /\ rq[r].kind = "unary"
        /\ rq[r].accounts = <<"a", "b">> /\ rq[r].idx = 2 /\ rq[r].stat = "failed"
        /\ cooldownState["a"].reason = "quota"

\* C13: an upstream answer that is neither 2xx nor 429 records one failure
\* for the identity and moves on to the next identity of the round, and the
\* cooldown registry is left exactly as it was.
C13_NonOkNoCooldown ==
    [][\A r \in Reqs :
          (rq[r].pc \in {"call", "scall"} /\ rq'[r].out = "s5xx") =>
              /\ cooldownState' = cooldownState
              /\ rq'[r].stat = "failed"
              /\ rq'[r].pc = "iter" /\ rq'[r].idx = rq[r].idx + 1
              /\ rq'[r].attempt = rq[r].attempt /\ rq'[r].result = "none"]_vars
C13_Witness ==
    \E r \in Reqs :
        /\ rq[r].pc = "iter" /\ rq[r].out = "s5xx" /\ rq[r].kind = "stream"
        /\ rq[r].stat = "failed" /\ rq[r].idx = 2 /\ rq[r].attempt = 0
        /\ cooldownState["a"] = NoEntry

\* C14: no identity is ever in a cooldown whose reason is format or
\* model_not_found.
C14_NoFormatOrModelCooldown ==
    \A e \in Emails : cooldownState[e].reason \notin {"format", "model_not_found"}

\* the upstream call of the iteration is out or has been answered
AtUpstreamCall(q) == q.pc \in {"call", "fbcall", "scall", "sfbcall"}

\* C15: in the unary and in the streaming rotation alike, an upstream call
\* made with an identity follows an allowed rateLimiter.consume for that
\* identity in the same iteration.
C15_CallAfterAllowedConsume ==
    \A r \in Reqs : AtUpstreamCall(rq[r]) => rq[r].consumed

\* C16: for the identity, any two probes are at least 30 s apart, whatever
\* marks, expiries and clears happen between them.
C16_ProbesThirtySecondsApart ==
    probeGap = Undefined \/ probeGap >= 30 * 1000

\* C17: once marked auth or billing, the identity stays in that cooldown:
\* nothing the engine does ends or shortens it.
C17_AuthCooldownStays ==
    authMarked =>
        /\ isAccountInCooldownAt(cooldown, now)
        /\ cooldown.reason \in {"auth", "billing"}

C19_SuccessForgets ==
    [][/\ forgot' # Undefined =>
            /\ ~isAccountInCooldownAt(cooldown', now')
            /\ cooldown'.failureCount = 0
       /\ (forgot # Undefined /\ cooldown' # cooldown /\ cooldown'.reason = "rate_limit") =>
            /\ cooldown'.cooldownUntil = now + 15 * 1000
            /\ cooldown'.failureCount = 1]_vars
C19_Witness ==
    /\ forgot >= 4
    /\ cooldown = NoState
    /\ inUse > 0

\* C20: with the single identity answering every call 429 "quota exceeded",
\* the unary request ends with 503, leaves the identity in a quota cooldown
\* of 60 min, and has raised its failed counter by exactly 1 over all rounds.
C20_QuotaOnlyIdentity ==
    s2.pc = "done" =>
        /\ s2.status = 503
        /\ s2.failed = 1
        /\ cooldown.reason = "quota"
        /\ cooldown.cooldownUntil = s2.markedAt + 60 * 60 * 1000
        /\ isAccountInCooldownAt(cooldown, now)
C20_Witness ==
    /\ s2.pc = "done"
    /\ s2.attempt = MAX_ATTEMPTS
    /\ s2.calls = 2
    /\ s2.failed = 1
    /\ cooldown.reason = "quota"

\* a run() call that is under way
InRun(c) == gpc[c] \in {"queued", "acquired", "granted", "running", "settled"}

\* C21: when every function passed to run settles, every run call, a queued
\* one included, gets its slot, runs its function and returns.
\* (a call that is in run() leaves it: at all times the caller is eventually
\* outside run() again)
C21_EveryRunReturns ==
    /\ \A c \in Callers : []<>~InRun(c)
    /\ [][\A c \in Callers :
            /\ (gpc[c] = "queued" /\ gpc'[c] # "queued") => gpc'[c] = "granted"
            /\ (gpc[c] = "granted" /\ gpc'[c] # "granted") => gpc'[c] = "running"
            /\ (gpc[c] = "running" /\ gpc'[c] # "running") => gpc'[c] = "settled"
            /\ (InRun(c) /\ ~InRun(c)') => gpc[c] = "settled" /\ active' <= active]_vars
C21_Witness ==
    \E c, d \in Callers :
        /\ gpc[c] = "granted"
        /\ gpc[d] = "queued"
        /\ active = maxConcurrent

\* C22: waiters get their slots in the order of their acquire calls, and a
\* caller that arrives later never takes a slot ahead of a queued waiter.
C22_WaitersServedFifo ==
    [][\A c \in Callers :
          /\ (gpc[c] = "idle" /\ gpc'[c] = "queued") => queue' = Append(queue, c)
          /\ (gpc[c] = "queued" /\ gpc'[c] # "queued") =>
                /\ gpc'[c] = "granted"
                /\ c = Head(queue)
                /\ queue' = Tail(queue)
          /\ (gpc[c] = "idle" /\ gpc'[c] \in {"acquired", "granted"}) => queue = <<>>]_vars
C22_Witness ==
    \E c \in Callers :
        /\ gpc[c] = "granted"
        /\ Len(queue) >= 1
        /\ \E d \in Callers : gpc[d] = "idle"

\* C23: within one round the identities are attempted in ascending order of
\* their lastUsedAt, the least recently used first.
C23_RoundInLruOrder ==
    \A r \in Readers :
        rd[r].pc = "round" =>
            \A j, k \in 1..Len(rd[r].list) :
                j < k => rd[r].list[j].lastUsedAt <= rd[r].list[k].lastUsedAt
C23_Witness ==
    \E r \in Readers :
        /\ rd[r].pc = "round"
        /\ rd[r].i = 2
        /\ rd[r].list[1].email = "b"
        /\ rd[r].list[1].lastUsedAt < rd[r].list[2].lastUsedAt

\* C24: a list that getReadyAccounts returns was loaded from persistence no
\* more than 5 s, plus the duration of one refresh, earlier.
C24_StalenessWithinTtl ==
    lastRet.loaded => lastRet.age <= 5 * 1000 + lastRet.refreshMs

\* C24, amended: getReadyAccounts returns the cached list however old it is;
\* when the list was loaded more than 5 s (plus the duration of its refresh)
\* earlier, a background refresh is in flight at the return.
C24_StaleListIsBeingRefreshed ==
    (lastRet.loaded /\ lastRet.age > 5 * 1000 + lastRet.refreshMs) => lastRet.refreshing
C24_Witness ==
    /\ lastRet.loaded
    /\ lastRet.age > 5 * 1000 + lastRet.refreshMs
    /\ lastRet.refreshing
    /\ Len(lastRet.list) = 2

\* C25: once at least the window (60 s) has passed since the key's window
\* started, the next consume is allowed and leaves 60 - 1 remaining, whatever
\* the count of the previous window, an exhausted one included.
C25_WindowReset ==
    (lastConsume.before # NoBucket
        /\ lastConsume.at - lastConsume.before.windowStartMs >= 60 * 1000) =>
            /\ lastConsume.allowed
            /\ lastConsume.remaining = 60 - 1
            /\ rlBucket = [count |-> 1, windowStartMs |-> lastConsume.at]
C25_Witness ==
    /\ lastConsume.before.count = 60
    /\ lastConsume.at - lastConsume.before.windowStartMs = 60 * 1000
    /\ lastConsume.allowed
    /\ lastConsume.remaining = 59

\* the number of frames of a body that are the [DONE] frame
doneFrames(body) == Cardinality({i \in 1..Len(body) : body[i] = DoneFrame})

retryAfterBase(header, t) ==
    Min(Max(parseRetryAfterMs(header, t), BASE_RETRY_DELAY_MS), MAX_RETRY_DELAY_MS)

\* C27: when the upstream response carried a Retry-After header, the backoff
\* that follows is the header's value (floor 2 s, cap 60 s) within +-20 %
C27_RetryAfterIsBase ==
    (bk.pc = "sleep" /\ parseRetryAfterMs(bk.retryAfter, now) > 0) =>
        /\ bk.delay * 10 >= retryAfterBase(bk.retryAfter, now) * 8
        /\ bk.delay * 10 <= retryAfterBase(bk.retryAfter, now) * 12

\* the text contains the phrase
contains(phrases, phrase) == \E i \in 1..Len(phrases) : phrases[i] = phrase
\* the leading statuses classifyError decides on before any pattern
ShortcutStatuses == {429, 401, 403, 402, 404, 408, 500, 502, 503, 504, 521, 522, 523, 524, 529}

\* C28 as stated: every text with "quota exceeded" and "429 rate limit" is
\* quota, every text with "unknown model" and "quota exceeded" is
\* model_not_found
C28_Priority ==
    ccat # NoCategory =>
        /\ (contains(ctext, QuotaExceeded) /\ contains(ctext, RateLimit429))
              => ccat = "quota"
        /\ (contains(ctext, UnknownModel) /\ contains(ctext, QuotaExceeded))
              => ccat = "model_not_found"
\* C28: a text with "quota exceeded" and "429 rate limit" is quota when it
\* starts with the status 429, or starts with no status that has a shortcut
\* and has no model-not-found phrase; a text with "unknown model" and "quota
\* exceeded" is model_not_found when it starts with the status 404 or with no
\* status that has a shortcut
C28_PriorityAfterStatus ==
    ccat # NoCategory =>
        /\ (/\ contains(ctext, QuotaExceeded) /\ contains(ctext, RateLimit429)
            /\ \/ extractHttpStatus(ctext) = 429
               \/ /\ extractHttpStatus(ctext) \notin ShortcutStatuses
                  /\ ~contains(ctext, UnknownModel))
              => ccat = "quota"
        /\ (/\ contains(ctext, UnknownModel) /\ contains(ctext, QuotaExceeded)
            /\ \/ extractHttpStatus(ctext) = 404
               \/ extractHttpStatus(ctext) \notin ShortcutStatuses)
              => ccat = "model_not_found"
\* a text with all three phrases and no leading status was classified
C28_Witness ==
    /\ ccat = "model_not_found"
    /\ extractHttpStatus(ctext) = 0
    /\ contains(ctext, UnknownModel)
    /\ contains(ctext, QuotaExceeded)
    /\ contains(ctext, RateLimit429)

\* the call carries no credential validateApiKey knows
NoKnownCredential ==
    /\ withoutBearer(call.authorization) # KnownKey
    /\ call.queryKey # KnownKey
    /\ call.googApiKey # KnownKey

\* C29 as stated: a call without a known credential is answered 401 and is
\* not handed to the engine
C29_Unauthorized401 ==
    NoKnownCredential =>
        /\ ~aengine
        /\ apc = "answered" => astatus = 401
\* C29: a call without a known credential is never handed to the engine; it
\* is answered 401 once it reaches requireApiKey and validateApiKey answers,
\* and 302, 429 or 500 when the setup redirect, apiLimiter or a failing
\* validateApiKey answers it first
C29_NeverReachesEngine ==
    NoKnownCredential =>
        /\ ~aengine
        /\ apc \notin {"route", "engine"}
        /\ apc = "answered" =>
              astatus = IF ~call.configured THEN 302
                        ELSE IF call.overLimit THEN 429
                        ELSE IF ~falsy(apiKeyOf(call)) /\ call.dbFails THEN 500
                        ELSE 401
\* a call with an unknown key was validated and answered 401
C29_Witness ==
    /\ NoKnownCredential
    /\ apiKeyOf(call) = UnknownKey
    /\ call.configured /\ ~call.overLimit /\ ~call.dbFails
    /\ apc = "answered"
    /\ astatus = 401

\* the identities a reactivation found inactive and exhausted for longer than
\* its cooldown
ExhaustedLongAgo ==
    {e \in Emails :
        /\ ~lastReactivation.before[e].isActive
        /\ lastReactivation.before[e].exhaustedAt # Undefined
        /\ lastReactivation.at - lastReactivation.before[e].exhaustedAt
              > lastReactivation.cooldownMs}

RECURSIVE sumOfCalls(_, _)
sumOfCalls(f(_), n) ==
    IF n = 0 THEN 0
    ELSE (IF scall[n].pc # "idle" THEN f(scall[n].stats) ELSE 0) + sumOfCalls(f, n - 1)

\* C31: whatever the order of the calls, every counter is its value before the
\* calls plus the sum of the increments of the calls made
C31_NoLostUpdate ==
    LET succ(st) == st.successful
        fail(st) == st.failed
        tok(st) == st.tokens
        all(st) == st.successful + st.failed
    IN  /\ orZero(scounters.successfulRequests)
              = orZero(sinitial.successfulRequests) + sumOfCalls(succ, NumStatCallers)
        /\ orZero(scounters.failedRequests)
              = orZero(sinitial.failedRequests) + sumOfCalls(fail, NumStatCallers)
        /\ orZero(scounters.totalTokensUsed)
              = orZero(sinitial.totalTokensUsed) + sumOfCalls(tok, NumStatCallers)
        /\ orZero(scounters.totalRequests)
              = orZero(sinitial.totalRequests) + sumOfCalls(all, NumStatCallers)
\* two calls are pending at once, a third has returned, and the counters moved
C31_Witness ==
    /\ \E c, d, e \in StatCallers :
          /\ c # d
          /\ scall[c].pc = "awaiting" /\ scall[d].pc = "awaiting" /\ scall[e].pc = "done"
          /\ scall[c].stats.successful = 2 /\ scall[d].stats.failed = 1
    /\ scounters.totalRequests >= orZero(sinitial.totalRequests) + 3

\* C32: when the only identity answers every call 429 "Quota exceeded" and the
\* unary request ends in 503, the identity's stored isActive flag is false
C32_MarkedExhaustedInPersistence ==
    (s2.pc = "done" /\ s2.status = 503) => ~s2.isActive

\* a refresh of the identity is running
RefreshRunning(e) == \E p \in Pids : refresh[p].email = e /\ refresh[p].phase \in {"http", "db"}

\* C33: the in-flight record of an identity exists only while its refresh is
\* running, whichever way the refresh ends, and a call that needs a token when
\* no refresh is running starts a new refresh
C33_RecordRemovedOnEveryExit ==
    /\ [](\A e \in Emails :
            tokenRefreshInFlight[e] # 0 =>
                /\ refresh[tokenRefreshInFlight[e]].email = e
                /\ refresh[tokenRefreshInFlight[e]].phase \in {"http", "db"})
    /\ [][\A c \in TokCallers :
            (tpc[c] = "idle" /\ tpc'[c] = "await" /\ ~RefreshRunning(tem'[c])) =>
                /\ refresh[twait'[c]] = NoRefresh
                /\ refresh'[twait'[c]] = [email |-> tem'[c], phase |-> "http"]
                /\ tokenRefreshInFlight'[tem'[c]] = twait'[c]]_vars
\* a refresh failed at db.updateAccount and a later call started a new one
C33_Witness ==
    \E p \in Pids, q \in Pids :
        /\ p < q
        /\ refresh[p].phase = "failed_db"
        /\ refresh[q] = [email |-> refresh[p].email, phase |-> "http"]
        /\ tokenRefreshInFlight[refresh[p].email] = q

\* a refresh of the identity succeeded and its token is not yet within 5 min
\* of expiry
RefreshedAndFresh(e) ==
    /\ cachedTok[e].fresh
    /\ \E p \in Pids : refresh[p] = [email |-> e, phase |-> "over"]

\* C34: once a refresh of an identity has succeeded, no call starts another
\* refresh HTTP call for it while the new token is more than 5 min from expiry
C34_NoRefreshWhileTokenFresh ==
    [][\A e \in Emails :
          RefreshedAndFresh(e) =>
              \A q \in Pids :
                  refresh'[q] = [email |-> e, phase |-> "http"] => refresh[q] = refresh'[q]]_vars

\* Date.now() of the markAccountCooldown that wrote the entry
recordedAt(state) == state.cooldownUntil - calculateCooldownMs(state.reason, state.failureCount)
\* this step is an iteration that probes the identity and goes on to call it
ProbeStep ==
    /\ isAccountInCooldownAt(cooldown, now)
    /\ cooldown' = [cooldown EXCEPT !.lastProbeAt = now]
    /\ inUse' = inUse + 1

\* C36: an identity in an unexpired rate_limit or overloaded cooldown is not
\* probed before 30 s have passed since the cooldown was recorded
C36_NoProbeWithinThirtySecondsOfMark ==
    [][(ProbeStep /\ cooldown.reason \in {"rate_limit", "overloaded"}) =>
            now - recordedAt(cooldown) >= MIN_PROBE_INTERVAL_MS]_vars

\* the identity is banned: in an unexpired cooldown and not probe-eligible
Banned == isAccountInCooldownAt(hentry, hnow) /\ ~shouldProbeAccountAt(hentry, hnow)

\* C35: no iteration that is not itself a probe starts an upstream call with
\* the identity while the identity is in an unexpired cooldown and not
\* probe-eligible
C35_NoCallWhileBanned ==
    [][\A c \in Holders :
          (hold[c].pc = "gate" /\ hold'[c].pc = "calling" /\ ~hold[c].probe) => ~Banned]_vars

\* C37: every public streaming request eventually has a terminated
\* downstream response, also when incrementAccountStats or another awaited
\* step throws
C37_StreamEventuallyTerminated == (stm.pc # "idle") ~> stm.res.writableEnded

\* the refreshCache runs that are under way
LoadsInFlight == {s \in Seqs : iload[s].phase = "loading"}

\* C38: at most one refresh of the account cache is in flight at any time,
\* whatever getReadyAccounts, warm and invalidate calls interleave
C38_OneCacheRefreshInFlight == Cardinality(LoadsInFlight) <= 1

\* C39: the first getReadyAccounts call after an invalidation returns a list
\* that was loaded from persistence after that invalidation
C39_FreshAfterInvalidate ==
    \A c \in InvCallers :
        (icall[c].pc = "returned" /\ icall[c].kind = "get" /\ icall[c].afterInv # 0) =>
            icall[c].list.loadedAt > icall[c].afterInv

\* C40: an iteration that issued an upstream call and is over has recorded an
\* outcome for its identity: a success or a failure
C40_CallRecordsOutcome ==
    \A r \in Reqs :
        rq[r].out \notin {"none", "token_throw"} => rq[r].stat \in {"successful", "failed"}

====
